---- MODULE Spec2Model ----
(***************************************************************************)
(* ViaCargo ERP: the order draft (OrderForm.tsx), the dashboard figures    *)
(* and the urgent alert (App.tsx) and the money rules (types.ts).          *)
(*                                                                         *)
(* Conventions of the model                                                *)
(*  - A JavaScript string is a sequence of one-character strings, so that  *)
(*    startsWith, split, padStart, toString and parseInt are computed.     *)
(*  - A JavaScript number that holds money is an integer where the code    *)
(*    only adds, subtracts and multiplies integers (exact in binary64),    *)
(*    and a binary64 value (Dbl, below) wherever the code multiplies by    *)
(*    0.20 / 0.40.                                                         *)
(*  - Time is counted in milliseconds since local midnight of EpochDate;   *)
(*    the code counts them since 1970, and only differences of times and   *)
(*    the local calendar day are ever used.                                *)
(***************************************************************************)
EXTENDS Integers, Sequences, FiniteSets, TLC

\* ------------------------------------------------------------------ bounds
MaxSmallMoney == 3   \* money inputs range over 0..MaxSmallMoney and ScenarioTotal
MaxExtras == 2       \* length of an extras list drawn as an input
MaxQty == 2          \* largest quantity and unit cost of a drawn extras entry
MaxOrders == 1       \* orders the Gateway stores at most
MaxRandom == 1       \* Math.floor(Math.random() * 1000) ranges over 0..MaxRandom
MaxDashOrders == 1   \* orders held while the dashboard figures are computed
MaxDashTx == 1       \* transactions held while the dashboard figures are computed
MaxNav == 1          \* months a cursor is moved away from today's month
MaxAlertOrders == 2  \* orders held while the urgent alert is computed
MaxAdvances == 2     \* times the clock is moved forward
MaxListOrders == 2   \* orders held while the list and the counts are computed

\* ----------------------------------------------------------------- strings
Digits == <<"0", "1", "2", "3", "4", "5", "6", "7", "8", "9">>

DigitChar(d) == Digits[d + 1]

DigitVal(c) == CHOOSE d \in 0..9 : Digits[d + 1] = c

\* Number.prototype.toString / template-literal formatting of a natural number
RECURSIVE NumStr(_)
NumStr(n) == IF n < 10 THEN <<DigitChar(n)>>
             ELSE NumStr(n \div 10) \o <<DigitChar(n % 10)>>

\* Number("06"), parseInt("1234"): decimal digits to a number
RECURSIVE ParseNum(_)
ParseNum(s) == IF s = <<>> THEN 0
               ELSE 10 * ParseNum(SubSeq(s, 1, Len(s) - 1)) + DigitVal(s[Len(s)])

\* String.prototype.padStart(width, "0")
RECURSIVE PadStart(_, _)
PadStart(s, width) == IF Len(s) >= width THEN s ELSE PadStart(<<"0">> \o s, width)

\* String.prototype.startsWith
StartsWith(s, prefix) ==
    /\ Len(prefix) <= Len(s)
    /\ SubSeq(s, 1, Len(prefix)) = prefix

\* String.prototype.split('-')
RECURSIVE SplitDash(_, _)
SplitDash(s, cur) ==
    IF s = <<>> THEN <<cur>>
    ELSE IF Head(s) = "-" THEN <<cur>> \o SplitDash(Tail(s), <<>>)
    ELSE SplitDash(Tail(s), cur \o <<Head(s)>>)

\* the YYYY-MM-DD text of a calendar date, as an <input type="date"> and the
\* backend's date column hold it
DateStr(y, m, d) ==
    PadStart(NumStr(y), 4) \o <<"-">> \o PadStart(NumStr(m), 2) \o <<"-">> \o PadStart(NumStr(d), 2)

\* ------------------------------------------------------------------- dates
MsPerDay == 1000 * 60 * 60 * 24

\* days from 1970-01-01 to the civil date y-m-d (proleptic Gregorian)
DaysFromCivil(y, m, d) ==
    LET yy  == IF m <= 2 THEN y - 1 ELSE y
        era == yy \div 400
        yoe == yy - era * 400
        mp  == (m + 9) % 12
        doy == (153 * mp + 2) \div 5 + d - 1
        doe == yoe * 365 + yoe \div 4 - yoe \div 100 + doy
    IN era * 146097 + doe - 719468

EpochDate == [year |-> 2024, month |-> 6, day |-> 10]

EpochDays == DaysFromCivil(EpochDate.year, EpochDate.month, EpochDate.day)

\* A time far from EpochDate does not fit a 32-bit integer, so such a time
\* is kept in two parts, [day, ms]: day * MsPerDay + ms milliseconds since
\* local midnight of EpochDate, with -MsPerDay < ms < MsPerDay.
\* new Date(year, monthIndex, day).getTime(): local midnight of that date
DateGetTime(year, monthIndex, day) ==
    [day |-> DaysFromCivil(year, monthIndex + 1, day) - EpochDays, ms |-> 0]

\* the difference a - b of two such times
TimeDiff(a, b) == [day |-> a.day - b.day, ms |-> a.ms - b.ms]

\* the difference is > 0
TimePositive(diff) == diff.day >= 1 \/ (diff.day = 0 /\ diff.ms > 0)

\* new Date(year, monthIndex, 1): the Date constructor normalises a month
\* index outside 0..11 into the neighbouring year
NewDateYM(year, monthIndex) ==
    [year |-> year + (monthIndex \div 12), month |-> monthIndex % 12, day |-> 1]

\* ------------------------------------------------------- binary64 numbers
\* A Dbl is [neg, mag]: mag is the magnitude in units of 2^-54, written as
\* its bits, least significant first, without leading zeros.  Every value
\* the money rules produce from integer amounts is a multiple of 2^-54, and
\* rounding to 53 significant bits (round-half-to-even) is IEEE-754.
UnitBits == 54

RECURSIVE Strip(_)
Strip(b) == IF b = <<>> THEN <<>>
            ELSE IF b[Len(b)] = 0 THEN Strip(SubSeq(b, 1, Len(b) - 1))
            ELSE b

RECURSIVE NatBits(_)
NatBits(n) == IF n = 0 THEN <<>> ELSE <<n % 2>> \o NatBits(n \div 2)

Bit(b, i) == IF i <= Len(b) THEN b[i] ELSE 0

RECURSIVE AddC(_, _, _, _)
AddC(a, b, i, c) ==
    IF i > Len(a) /\ i > Len(b) THEN (IF c = 0 THEN <<>> ELSE <<1>>)
    ELSE LET s == Bit(a, i) + Bit(b, i) + c
         IN <<s % 2>> \o AddC(a, b, i + 1, s \div 2)

BitsAdd(a, b) == AddC(a, b, 1, 0)

RECURSIVE SubC(_, _, _, _)
SubC(a, b, i, borrow) ==
    IF i > Len(a) THEN <<>>
    ELSE LET d == Bit(a, i) - Bit(b, i) - borrow
         IN <<d % 2>> \o SubC(a, b, i + 1, IF d < 0 THEN 1 ELSE 0)

\* a - b for a >= b
BitsSub(a, b) == Strip(SubC(a, b, 1, 0))

BitsLess(a, b) ==
    IF Len(a) # Len(b) THEN Len(a) < Len(b)
    ELSE \E i \in 1..Len(a) : a[i] < b[i] /\ \A j \in (i + 1)..Len(a) : a[j] = b[j]

RECURSIVE MulC(_, _, _, _)
MulC(a, t, i, c) ==
    IF i > Len(a) THEN NatBits(c)
    ELSE LET s == a[i] * t + c
         IN <<s % 2>> \o MulC(a, t, i + 1, s \div 2)

\* bits a times the natural number t
BitsMulNat(a, t) == Strip(MulC(a, t, 1, 0))

\* round a magnitude to 53 significant bits, ties to even
RoundToDouble(b) ==
    IF Len(b) <= 53 THEN b
    ELSE LET d      == Len(b) - 53
             kept   == SubSeq(b, d + 1, Len(b))
             sticky == \E i \in 1..(d - 1) : b[i] = 1
             up     == b[d] = 1 /\ (sticky \/ kept[1] = 1)
         IN [i \in 1..d |-> 0] \o (IF up THEN BitsAdd(kept, <<1>>) ELSE kept)

DblZero == [neg |-> FALSE, mag |-> <<>>]

\* the binary64 value of an integer (exact below 2^53)
DblOfInt(n) ==
    IF n = 0 THEN DblZero
    ELSE [neg |-> n < 0,
          mag |-> [i \in 1..UnitBits |-> 0] \o NatBits(IF n < 0 THEN 0 - n ELSE n)]

DblNeg(x) == IF x.mag = <<>> THEN x ELSE [x EXCEPT !.neg = ~x.neg]

\* x + y in binary64
DblAdd(x, y) ==
    IF x.neg = y.neg
    THEN [neg |-> x.neg, mag |-> RoundToDouble(BitsAdd(x.mag, y.mag))]
    ELSE IF x.mag = y.mag THEN DblZero
    ELSE IF BitsLess(x.mag, y.mag)
         THEN [neg |-> y.neg, mag |-> RoundToDouble(BitsSub(y.mag, x.mag))]
         ELSE [neg |-> x.neg, mag |-> RoundToDouble(BitsSub(x.mag, y.mag))]

\* x - y in binary64
DblSub(x, y) == DblAdd(x, DblNeg(y))

\* the literal 0.20 is the binary64 value 0xCCCCCCCCCCCCD * 2^-54
Lit020 ==
    <<1, 0, 1, 1>> \o <<0, 0, 1, 1>> \o <<0, 0, 1, 1>> \o <<0, 0, 1, 1>> \o <<0, 0, 1, 1>>
    \o <<0, 0, 1, 1>> \o <<0, 0, 1, 1>> \o <<0, 0, 1, 1>> \o <<0, 0, 1, 1>>
    \o <<0, 0, 1, 1>> \o <<0, 0, 1, 1>> \o <<0, 0, 1, 1>> \o <<0, 0, 1, 1>>

\* the literal 0.40 is the binary64 value 0x1999999999999A * 2^-54
Lit040 == <<0>> \o Lit020

\* total * literal, for a non-negative integer total
DblTimes(total, literal) ==
    [neg |-> FALSE, mag |-> RoundToDouble(BitsMulNat(literal, total))]


\* -------------------------------------------------------------- money rules
\* types.ts: calculateCosts, for integer amounts
RECURSIVE ReduceExtras(_, _)
ReduceExtras(extrasList, acc) ==
    IF extrasList = <<>> THEN acc
    ELSE ReduceExtras(Tail(extrasList), acc + (Head(extrasList).cost * Head(extrasList).qty))

calculateCosts_NoQty(financials) ==
    LET RECURSIVE CostOnly(_, _)
        CostOnly(l, acc) == IF l = <<>> THEN acc ELSE CostOnly(Tail(l), acc + Head(l).cost)
    IN financials.driverCost + CostOnly(financials.extras, 0)

calculateCosts(financials) ==
    LET extrasTotal == ReduceExtras(financials.extras, 0)
    IN financials.driverCost + extrasTotal

calculateProfit(financials) ==
    financials.totalValue - calculateCosts(financials)

\* types.ts: calculateReceivedAmount; the result is a binary64 value
calculateReceivedAmount(order) ==
    LET total == order.financials.totalValue
        r0 == DblZero
        r1 == IF order.paymentStatus.deposit THEN DblAdd(r0, DblTimes(total, Lit020)) ELSE r0
        r2 == IF order.paymentStatus.pickup THEN DblAdd(r1, DblTimes(total, Lit040)) ELSE r1
        r3 == IF order.paymentStatus.delivery THEN DblAdd(r2, DblTimes(total, Lit040)) ELSE r2
    IN r3


\* --------------------------------------------------------------- the draft
\* OrderForm.tsx: emptyOrder.  id and createdAt are absent from it; an absent
\* or empty string is <<>>.  The free-text fields whatsapp, origin,
\* destination, deliveryForecast and noteTags are copied like clientName and
\* are left out.
emptyOrder ==
    [id |-> <<>>,
     createdAt |-> <<>>,
     clientName |-> <<>>,
     isContractSigned |-> FALSE,
     isPostedFretebras |-> FALSE,
     paymentStatus |-> [deposit |-> FALSE, pickup |-> FALSE, delivery |-> FALSE],
     isCostsPaid |-> FALSE,
     progress |-> 20,
     financials |-> [totalValue |-> 0, driverCost |-> 0, extras |-> <<>>],
     pickupDate |-> <<>>,
     notes |-> <<>>]

\* OrderForm.tsx: calculateProgress inside the progress-sync effect
calculateProgress(paymentStatus) ==
    IF paymentStatus.delivery THEN 100
    ELSE IF paymentStatus.pickup THEN 60
    ELSE IF paymentStatus.deposit THEN 20
    ELSE 0

\* The progress-sync effect depends on [formData.paymentStatus]: React runs it
\* when that object is not the one of the previous render (Object.is).  The
\* identity of the object is emptyOrder.paymentStatus, the paymentStatus of a
\* fetched order, or an object built by a checkbox handler.
EmptyRef == <<"emptyOrder">>

\* the object a handler builds with { ...formData.paymentStatus, [key]: checked }
\* is none of the earlier ones; only the previous render's object is compared
NewObjectRef(oldRef) == IF oldRef = <<"built", 0>> THEN <<"built", 1>> ELSE <<"built", 0>>

\* Order objects are replaced only by fetchData, and every handler of this
\* specification that runs fetchData then clears editingOrder, which resets
\* the draft to emptyOrder; so an order object is identified by its id.
OrderRef(order) == <<"order", order.id>>

ProgressSyncEffect(draft, oldRef, newRef) ==
    IF newRef # oldRef
    THEN [draft EXCEPT !.progress = calculateProgress(draft.paymentStatus)]
    ELSE draft

\* OrderForm.tsx: the init effect (deps [initialData, isOpen]) and the
\* progress-sync effect of the render that follows it
InitEffects(initialData, oldRef) ==
    LET loaded == IF initialData # <<>> THEN initialData[1] ELSE emptyOrder
        newRef == IF initialData # <<>> THEN OrderRef(initialData[1]) ELSE EmptyRef
    IN [formData |-> ProgressSyncEffect(loaded, oldRef, newRef),
        extras |-> IF initialData # <<>> THEN initialData[1].financials.extras ELSE <<>>,
        ref |-> newRef]

\* ------------------------------------------------------ Persistence Gateway
\* text order of two YYYY-MM-DD strings (the empty string sorts first)
RECURSIVE StrLeq(_, _)
StrLeq(a, b) ==
    IF a = <<>> THEN TRUE
    ELSE IF b = <<>> THEN FALSE
    ELSE IF Head(a) = Head(b) THEN StrLeq(Tail(a), Tail(b))
    ELSE DigitVal(Head(a)) < DigitVal(Head(b))

\* supabaseService.ts: fetchServiceOrders returns the stored orders ordered by
\* pickup_date ascending; the order of rows with equal dates is the backend's
FetchResults(stored) ==
    {s \in [1..Cardinality(stored) -> stored] :
        /\ \A i, j \in DOMAIN s : i # j => s[i] # s[j]
        /\ \A i, j \in DOMAIN s : i < j => StrLeq(s[i].pickupDate, s[j].pickupDate)}

StoredIds(stored) == {o.id : o \in stored}

\* supabaseService.ts: createServiceOrder inserts the row keyed by id
DbInsert(stored, order) == stored \cup {order}

\* supabaseService.ts: updateServiceOrder rewrites the row with that id
DbUpdate(stored, order) == {IF o.id = order.id THEN order ELSE o : o \in stored}

\* ------------------------------------------------------- dashboard figures
\* App.tsx: `${d.getFullYear()}-${String(d.getMonth() + 1).padStart(2, '0')}`
DateKey(date) == NumStr(date.year) \o <<"-">> \o PadStart(NumStr(date.month + 1), 2)

\* App.tsx: monthOrders.forEach of monthlyRevenue / revenueViewValue;
\* cashOut only ever adds integer amounts and is kept as an integer
RECURSIVE OrdersCash(_, _)
OrdersCash(monthOrders, acc) ==
    IF monthOrders = <<>> THEN acc
    ELSE LET order == Head(monthOrders)
             rcv == calculateReceivedAmount(order)
         IN OrdersCash(Tail(monthOrders),
                [cashIn |-> DblAdd(acc.cashIn, rcv),
                 cashOut |-> IF order.isCostsPaid
                             THEN acc.cashOut + calculateCosts(order.financials)
                             ELSE acc.cashOut])

RECURSIVE OrdersCash_AllCosts(_, _)
OrdersCash_AllCosts(monthOrders, acc) ==
    IF monthOrders = <<>> THEN acc
    ELSE LET order == Head(monthOrders)
             rcv == calculateReceivedAmount(order)
         IN OrdersCash_AllCosts(Tail(monthOrders),
                [cashIn |-> DblAdd(acc.cashIn, rcv),
                 cashOut |-> acc.cashOut + calculateCosts(order.financials)])

\* App.tsx: monthTransactions.forEach of monthlyRevenue / revenueViewValue
RECURSIVE TransactionsCash(_, _)
TransactionsCash(monthTransactions, acc) ==
    IF monthTransactions = <<>> THEN acc
    ELSE LET t == Head(monthTransactions)
         IN TransactionsCash(Tail(monthTransactions),
                [cashIn |-> IF t.type = "income"
                            THEN DblAdd(acc.cashIn, DblOfInt(t.amount)) ELSE acc.cashIn,
                 cashOut |-> IF t.type = "expense"
                             THEN acc.cashOut + t.amount ELSE acc.cashOut])

MonthlyNet_AllCosts(orderList, transactionList, date) ==
    LET key == DateKey(date)
        InMonthO(order) == StartsWith(order.pickupDate, key)
        InMonthT(t) == StartsWith(t.date, key)
        afterOrders == OrdersCash_AllCosts(SelectSeq(orderList, InMonthO),
                                           [cashIn |-> DblZero, cashOut |-> 0])
        afterAll == TransactionsCash(SelectSeq(transactionList, InMonthT), afterOrders)
    IN DblSub(afterAll.cashIn, DblOfInt(afterAll.cashOut))

\* App.tsx: the body shared by the memos monthlyRevenue and revenueViewValue
MonthlyNet(orderList, transactionList, date) ==
    LET key == DateKey(date)
        InMonthO(order) == StartsWith(order.pickupDate, key)
        InMonthT(t) == StartsWith(t.date, key)
        afterOrders == OrdersCash(SelectSeq(orderList, InMonthO),
                                  [cashIn |-> DblZero, cashOut |-> 0])
        afterAll == TransactionsCash(SelectSeq(transactionList, InMonthT), afterOrders)
    IN DblSub(afterAll.cashIn, DblOfInt(afterAll.cashOut))

\* supabaseService.ts: fetchTransactions returns the stored transactions
\* ordered by date descending
FetchTransactionResults(stored) ==
    {s \in [1..Cardinality(stored) -> stored] :
        /\ \A i, j \in DOMAIN s : i # j => s[i] # s[j]
        /\ \A i, j \in DOMAIN s : i < j => StrLeq(s[j].date, s[i].date)}

\* ------------------------------------------------------ criticality rule
\* App.tsx: FIVE_HOURS of checkCriticalOrders and the setInterval period, in ms
FIVE_HOURS == 5 * 60 * 60 * 1000

TickInterval == 60 * 1000

\* Math.ceil(a / b) for b > 0
CeilDiv(a, b) == 0 - ((0 - a) \div b)

\* Math.ceil(diff / MsPerDay) of a difference of times
CeilDays(diff) == diff.day + CeilDiv(diff.ms, MsPerDay)

isOrderCritical_Strict(order, t) ==
    IF order.progress = 100 THEN FALSE
    ELSE LET parts == SplitDash(order.pickupDate, <<>>)
         IN IF Len(parts) < 3 THEN FALSE
            ELSE LET nowMidnight == [day |-> t \div MsPerDay, ms |-> 0]
                     targetDate == DateGetTime(ParseNum(parts[1]), ParseNum(parts[2]) - 1,
                                               ParseNum(parts[3]))
                     diffDays == CeilDays(TimeDiff(targetDate, nowMidnight))
                 IN diffDays < 5

\* App.tsx: isOrderCritical, the clock reading t passed in; a pickupDate with
\* fewer than three parts gives NaN, and NaN <= 5 is false
isOrderCritical(order, t) ==
    IF order.progress = 100 THEN FALSE
    ELSE LET parts == SplitDash(order.pickupDate, <<>>)
         IN IF Len(parts) < 3 THEN FALSE
            ELSE LET nowMidnight == [day |-> t \div MsPerDay, ms |-> 0]
                     targetDate == DateGetTime(ParseNum(parts[1]), ParseNum(parts[2]) - 1,
                                               ParseNum(parts[3]))
                     diffDays == CeilDays(TimeDiff(targetDate, nowMidnight))
                 IN diffDays <= 5

ShouldShow_AtWindow(lastAlertTime, t) ==
    lastAlertTime = <<>> \/ (t - ParseNum(lastAlertTime)) >= FIVE_HOURS

\* App.tsx: shouldShow of checkCriticalOrders; the stored item is a text, the
\* absent item (null) is the empty one
ShouldShow(lastAlertTime, t) ==
    lastAlertTime = <<>> \/ (t - ParseNum(lastAlertTime)) > FIVE_HOURS

checkCriticalOrders_AllOrders(orderList, alert, lastAlertTime, t) ==
    LET IsCritical(o) == isOrderCritical(o, t)
        criticalOrders == SelectSeq(orderList, IsCritical)
    IN IF Len(criticalOrders) > 0 /\ ShouldShow(lastAlertTime, t)
       THEN [urgentAlert |-> [count |-> Len(orderList),
                              names |-> [i \in DOMAIN orderList |-> orderList[i].clientName],
                              show |-> TRUE],
             lastExpirationAlertTime |-> NumStr(t), raised |-> TRUE]
       ELSE [urgentAlert |-> alert, lastExpirationAlertTime |-> lastAlertTime,
             raised |-> FALSE]

\* App.tsx: checkCriticalOrders, one recomputation pass over orderList at time
\* t: the alert and the stored item after it, and whether it raised
checkCriticalOrders(orderList, alert, lastAlertTime, t) ==
    LET IsCritical(o) == isOrderCritical(o, t)
        criticalOrders == SelectSeq(orderList, IsCritical)
    IN IF Len(criticalOrders) > 0 /\ ShouldShow(lastAlertTime, t)
       THEN [urgentAlert |-> [count |-> Len(criticalOrders),
                              names |-> [i \in DOMAIN criticalOrders |->
                                            criticalOrders[i].clientName],
                              show |-> TRUE],
             lastExpirationAlertTime |-> NumStr(t), raised |-> TRUE]
       ELSE [urgentAlert |-> alert, lastExpirationAlertTime |-> lastAlertTime,
             raised |-> FALSE]


\* ------------------------------------------------------------ list and counts
\* App.tsx: the callback of the memo counts, run at clock reading t
Counts(orderList, t) ==
    LET Active(o) == o.progress < 100
        Completed(o) == o.progress = 100
        Critical(o) == isOrderCritical(o, t)
    IN [all |-> Len(orderList),
        active |-> Len(SelectSeq(orderList, Active)),
        completed |-> Len(SelectSeq(orderList, Completed)),
        critical |-> Len(SelectSeq(orderList, Critical))]

\* new Date(text).getTime() of a YYYY-MM-DD text: midnight UTC of that day,
\* counted from midnight UTC of EpochDate; <<>> stands for NaN (Invalid Date)
DateParseTime(text) ==
    LET parts == SplitDash(text, <<>>)
    IN IF Len(parts) # 3 \/ \E i \in 1..3 : parts[i] = <<>> THEN <<>>
       ELSE <<DateGetTime(ParseNum(parts[1]), ParseNum(parts[2]) - 1, ParseNum(parts[3]))>>

\* the comparator of filteredOrders says a goes after b; a NaN difference
\* counts as 0
ComesAfter(a, b) ==
    LET ta == DateParseTime(a.pickupDate)
        tb == DateParseTime(b.pickupDate)
    IN ta # <<>> /\ tb # <<>> /\ TimePositive(TimeDiff(ta[1], tb[1]))

\* Array.prototype.sort with that comparator: a stable sort (ECMAScript 2019),
\* here by insertion of each element after every element it does not precede
RECURSIVE InsertOrder(_, _)
InsertOrder(sorted, o) ==
    IF sorted = <<>> THEN <<o>>
    ELSE IF ComesAfter(sorted[Len(sorted)], o)
         THEN InsertOrder(SubSeq(sorted, 1, Len(sorted) - 1), o) \o <<sorted[Len(sorted)]>>
         ELSE sorted \o <<o>>

RECURSIVE SortOrders(_)
SortOrders(list) ==
    IF list = <<>> THEN <<>>
    ELSE InsertOrder(SortOrders(SubSeq(list, 1, Len(list) - 1)), list[Len(list)])

\* App.tsx: the callback of the memo filteredOrders, run at clock reading t
FilteredOrders(orderList, f, t) ==
    LET Keep(order) ==
            IF f = "all" THEN TRUE
            ELSE IF f = "active" THEN order.progress < 100
            ELSE IF f = "completed" THEN order.progress = 100
            ELSE IF f = "critical" THEN isOrderCritical(order, t)
            ELSE TRUE
    IN SortOrders(SelectSeq(orderList, Keep))

\* ------------------------------------------------------------------- state
VARIABLES
    arg,        \* the order a money rule is applied to
    received,   \* <<calculateReceivedAmount(arg)>> once applied, <<>> before
    costs,      \* <<calculateCosts(arg.financials)>> once applied, <<>> before
    profit,     \* <<calculateProfit(arg.financials)>> once applied, <<>> before
    orders,     \* App: the in-memory orders, as fetched
    transactions,     \* App: the in-memory transactions, as fetched
    monthlyGoals,     \* App: the in-memory goals, month key -> goal value
    viewDate,   \* App: the goal-widget month (a Date)
    revenueViewDate,  \* App: the revenue-card month (a Date)
    filter,     \* App: the list filter
    urgentAlert,      \* App: urgentAlert, [count, names, show]
    lastExpirationAlertTime, \* localStorage item of that name, <<>> when absent
    now,        \* the clock, milliseconds since local midnight of EpochDate
    advances,   \* number of times the clock was advanced
    raiseLog,   \* [raised: the last step raised the alert, last: <<time of the latest raise>>]
    isFormOpen, \* App: isFormOpen
    editingOrder,     \* App: editingOrder, <<>> for null, <<order>> otherwise
    formData,   \* OrderForm: the draft
    extras,     \* OrderForm: the extras working set
    paymentStatusRef, \* OrderForm: which object formData.paymentStatus is
    dbOrders,   \* Persistence Gateway: the stored orders
    dbTransactions,   \* Persistence Gateway: the stored transactions
    dbGoals,    \* Persistence Gateway: the stored goals, month key -> goal value
    lastRequest,      \* <<[call, order]>>: the Gateway call of the operation that ran last
    deleteId,   \* App: deleteId, <<>> for null, <<id>> otherwise
    showSuccessToast, \* App: showSuccessToast
    alertShown, \* the messages the operation that ran last passed to window.alert
    lastInput,  \* the arguments of the operation that ran last, <<>> when it has none
    isLoadingData,    \* App: isLoadingData
    inflight,   \* the handlers waiting for their fetchData, in the order they started
    fetchLog,   \* [started, data, goal]: fetches started so far, the start number of the
                \* fetch the collections were last set from, the start count at the last
                \* local goal update
    isPdfModalOpen,   \* OrderForm: isPdfModalOpen
    counts,     \* App: the memo counts (deps [orders])
    filteredOrders,   \* App: the memo filteredOrders (deps [orders, filter])
    op          \* name of the operation that ran last

moneyVars == <<arg, received, costs, profit>>

dataVars == <<orders, transactions, monthlyGoals, dbOrders, dbTransactions, dbGoals>>

cursorVars == <<viewDate, revenueViewDate>>

alertVars == <<filter, urgentAlert, lastExpirationAlertTime, now, advances, raiseLog>>

formVars ==
    <<isFormOpen, editingOrder, formData, extras, paymentStatusRef, lastRequest, deleteId,
      showSuccessToast, alertShown, lastInput>>

memoVars == <<counts, filteredOrders>>

sessionVars == <<isLoadingData, inflight, fetchLog, isPdfModalOpen>>

vars == <<moneyVars, dataVars, cursorVars, alertVars, formVars, memoVars, sessionVars, op>>

\* ------------------------------------------------- inputs of the money rules
\* amounts of the aggregation scenario
Scenario ==
    [totalValue |-> 1000, driverCost |-> 200, expense |-> 50, net |-> 350, unpaid |-> 500]

MoneyValues == (0..MaxSmallMoney) \cup {Scenario.totalValue}

PaymentStatuses == [deposit : BOOLEAN, pickup : BOOLEAN, delivery : BOOLEAN]

ExtraInputs ==
    {[id |-> <<"x">>, type |-> "other", name |-> <<>>, qty |-> q, cost |-> c] :
        q \in 0..MaxQty, c \in 1..MaxQty}

ExtrasInputs == UNION {[1..n -> ExtraInputs] : n \in 0..MaxExtras}

MoneyArgs ==
    [paymentStatus : PaymentStatuses,
     financials : [totalValue : MoneyValues, driverCost : {0, Scenario.driverCost}, extras : ExtrasInputs]]


\* ------------------------------------------- specification of the order form
CurrentYear == EpochDate.year

\* new Date().toISOString(): the text of the current instant
NowIso == <<"T">>

ClientNames == {<<>>, <<"A", "n", "a">>}

\* `OS-${new Date().getFullYear()}-${Math.floor(Math.random() * 1000)}`
GeneratedId(n) == <<"O", "S", "-">> \o NumStr(CurrentYear) \o <<"-">> \o NumStr(n)

\* an order already stored when the application starts
SeedOrder ==
    [emptyOrder EXCEPT !.id = GeneratedId(0), !.createdAt = NowIso,
                       !.clientName = <<"A", "n", "a">>,
                       !.paymentStatus.deposit = TRUE, !.progress = 20]

\* the application right after it started, today being EpochDate
Today == [year |-> EpochDate.year, month |-> EpochDate.month - 1, day |-> EpochDate.day]

MoneyIdle ==
    /\ arg = emptyOrder
    /\ received = <<>>
    /\ costs = <<>>
    /\ profit = <<>>

CursorIdle ==
    /\ viewDate = Today
    /\ revenueViewDate = Today

AlertIdle ==
    /\ filter = "active"
    /\ urgentAlert = [count |-> 0, names |-> <<>>, show |-> FALSE]
    /\ lastExpirationAlertTime = <<>>
    /\ now = 0
    /\ advances = 0
    /\ raiseLog = [raised |-> FALSE, last |-> <<>>]

\* the form has never been opened: the mount ran both effects on emptyOrder
FormIdle ==
    /\ isFormOpen = FALSE
    /\ editingOrder = <<>>
    /\ formData = ProgressSyncEffect(emptyOrder, <<>>, EmptyRef)
    /\ extras = <<>>
    /\ paymentStatusRef = EmptyRef
    /\ lastRequest = <<>>
    /\ deleteId = <<>>
    /\ showSuccessToast = FALSE
    /\ alertShown = <<>>
    /\ lastInput = <<>>

DataIdle ==
    /\ orders = <<>>
    /\ transactions = <<>>
    /\ monthlyGoals = <<>>
    /\ dbOrders = {}
    /\ dbTransactions = {}
    /\ dbGoals = <<>>

\* the memos hold what their callbacks gave in the render that follows a change
\* of their dependencies
MemoRecomputed(orderList, f) ==
    /\ counts' = Counts(orderList, now)
    /\ filteredOrders' = FilteredOrders(orderList, f, now)

\* no fetch is running and the PDF dialog was not opened; isLoadingData is
\* TRUE from the mount until the first fetchData is over
SessionIdle(loading) ==
    /\ isLoadingData = loading
    /\ inflight = <<>>
    /\ fetchLog = [started |-> 0, data |-> 0, goal |-> 0]
    /\ isPdfModalOpen = FALSE

\* the memos after the first render
MemoInit ==
    /\ counts = Counts(orders, now)
    /\ filteredOrders = FilteredOrders(orders, filter, now)

FormInit ==
    /\ FormIdle
    /\ dbOrders \in {{}, {SeedOrder}}
    /\ orders \in FetchResults(dbOrders)
    /\ transactions = <<>>
    /\ monthlyGoals = <<>>
    /\ dbTransactions = {}
    /\ dbGoals = <<>>
    /\ MoneyIdle
    /\ CursorIdle
    /\ AlertIdle
    /\ MemoInit
    /\ SessionIdle(FALSE)
    /\ op = "init"

\* what a render with the new initialData / isOpen leaves in the draft
RunInitEffects(initialData) ==
    LET r == InitEffects(initialData, paymentStatusRef)
    IN /\ formData' = r.formData
       /\ extras' = r.extras
       /\ paymentStatusRef' = r.ref

\* an operation that calls no alert, takes no argument and leaves the delete
\* prompt and the toast as they are
Quiet ==
    /\ alertShown' = <<>>
    /\ lastInput' = <<>>
    /\ UNCHANGED <<deleteId, showSuccessToast>>

\* App.tsx: openNew (the "Nova OS" button, reachable while the form is closed)
openNew ==
    /\ ~isFormOpen
    /\ editingOrder' = <<>>
    /\ isFormOpen' = TRUE
    /\ RunInitEffects(<<>>)
    /\ op' = "openNew"
    /\ lastRequest' = <<>>
    /\ Quiet
    /\ UNCHANGED <<memoVars, dataVars, moneyVars, cursorVars, alertVars>>
    /\ UNCHANGED sessionVars

\* App.tsx: openEdit (click on an order card)
openEdit(i) ==
    /\ ~isFormOpen
    /\ editingOrder' = <<orders[i]>>
    /\ isFormOpen' = TRUE
    /\ RunInitEffects(<<orders[i]>>)
    /\ op' = "openEdit"
    /\ lastRequest' = <<>>
    /\ Quiet
    /\ UNCHANGED <<memoVars, dataVars, moneyVars, cursorVars, alertVars>>
    /\ UNCHANGED sessionVars

\* App.tsx: the form's onClose, () => setIsFormOpen(false)
onClose ==
    /\ isFormOpen
    /\ isFormOpen' = FALSE
    /\ RunInitEffects(editingOrder)
    /\ op' = "onClose"
    /\ lastRequest' = <<>>
    /\ Quiet
    /\ UNCHANGED <<memoVars, editingOrder, dataVars, moneyVars, cursorVars, alertVars>>
    /\ UNCHANGED sessionVars

\* OrderForm.tsx: onChange of a payment checkbox, then the progress-sync effect
setPaymentStatus(stage) ==
    /\ isFormOpen
    /\ LET edited == [formData EXCEPT !.paymentStatus[stage] = ~formData.paymentStatus[stage]]
       IN formData' = ProgressSyncEffect(edited, paymentStatusRef, NewObjectRef(paymentStatusRef))
    /\ paymentStatusRef' = NewObjectRef(paymentStatusRef)
    /\ op' = "setPaymentStatus"
    /\ lastRequest' = <<>>
    /\ Quiet
    /\ UNCHANGED <<memoVars, isFormOpen, editingOrder, extras, dataVars, moneyVars, cursorVars, alertVars>>
    /\ UNCHANGED sessionVars

\* OrderForm.tsx: onChange of the client-name input
setClientName(name) ==
    /\ isFormOpen
    /\ name # formData.clientName
    /\ formData' = [formData EXCEPT !.clientName = name]
    /\ op' = "setClientName"
    /\ lastRequest' = <<>>
    /\ Quiet
    /\ UNCHANGED <<memoVars, isFormOpen, editingOrder, extras, paymentStatusRef, dataVars, moneyVars,
                   cursorVars, alertVars>>
    /\ UNCHANGED sessionVars

\* OrderForm.tsx: onChange of the total-value input, Number(e.target.value)
setTotalValue(value) ==
    /\ isFormOpen
    /\ formData' = [formData EXCEPT !.financials.totalValue = value]
    /\ op' = "setTotalValue"
    /\ lastRequest' = <<>>
    /\ alertShown' = <<>>
    /\ lastInput' = <<value>>
    /\ UNCHANGED <<deleteId, showSuccessToast>>
    /\ UNCHANGED <<memoVars, isFormOpen, editingOrder, extras, paymentStatusRef, dataVars, moneyVars,
                   cursorVars, alertVars>>
    /\ UNCHANGED sessionVars

\* OrderForm.tsx: onChange of the driver-cost input,
\* Math.max(0, Number(e.target.value))
setDriverCost(value) ==
    /\ isFormOpen
    /\ formData' = [formData EXCEPT !.financials.driverCost = IF value > 0 THEN value ELSE 0]
    /\ op' = "setDriverCost"
    /\ lastRequest' = <<>>
    /\ alertShown' = <<>>
    /\ lastInput' = <<value>>
    /\ UNCHANGED <<deleteId, showSuccessToast>>
    /\ UNCHANGED <<memoVars, isFormOpen, editingOrder, extras, paymentStatusRef, dataVars, moneyVars,
                   cursorVars, alertVars>>
    /\ UNCHANGED sessionVars

\* OrderForm.tsx: the print button of the header, rendered when initialData
\* is set
openPdfModal ==
    /\ isFormOpen
    /\ editingOrder # <<>>
    /\ isPdfModalOpen' = TRUE
    /\ op' = "openPdfModal"
    /\ lastRequest' = <<>>
    /\ alertShown' = <<>>
    /\ lastInput' = <<>>
    /\ UNCHANGED <<deleteId, showSuccessToast>>
    /\ UNCHANGED <<memoVars, isFormOpen, editingOrder, formData, extras, paymentStatusRef, dataVars,
                   moneyVars, cursorVars, alertVars>>
    /\ UNCHANGED <<isLoadingData, inflight, fetchLog>>

\* the export dialog is on screen: OrderForm renders it while the form is
\* open, and PdfExportModal returns null without an order
PdfModalShown == isFormOpen /\ isPdfModalOpen /\ editingOrder # <<>>

\* OrderForm.tsx: onClose of PdfExportModal
closePdfModal ==
    /\ PdfModalShown
    /\ isPdfModalOpen' = FALSE
    /\ op' = "closePdfModal"
    /\ lastRequest' = <<>>
    /\ alertShown' = <<>>
    /\ lastInput' = <<>>
    /\ UNCHANGED <<deleteId, showSuccessToast>>
    /\ UNCHANGED <<memoVars, isFormOpen, editingOrder, formData, extras, paymentStatusRef, dataVars,
                   moneyVars, cursorVars, alertVars>>
    /\ UNCHANGED <<isLoadingData, inflight, fetchLog>>

\* PdfExportModal handing the draft with the working set to the generator
generatePdf_Draft ==
    /\ PdfModalShown
    /\ lastRequest' = <<[call |-> "generateTeamPDF",
                         order |-> [formData EXCEPT !.financials.extras = extras]]>>
    /\ op' = "generatePdf"
    /\ alertShown' = <<>>
    /\ lastInput' = <<>>
    /\ UNCHANGED <<deleteId, showSuccessToast>>
    /\ UNCHANGED <<memoVars, isFormOpen, editingOrder, formData, extras, paymentStatusRef, dataVars,
                   moneyVars, cursorVars, alertVars>>
    /\ isPdfModalOpen' = FALSE
    /\ UNCHANGED <<isLoadingData, inflight, fetchLog>>

\* PdfExportModal: handleGenerateGeneric and the driver form's submit call
\* the generator with the order prop, which OrderForm sets to initialData,
\* and then handleClose
generatePdf ==
    /\ PdfModalShown
    /\ lastRequest' = <<[call |-> "generateTeamPDF", order |-> editingOrder[1]]>>
    /\ op' = "generatePdf"
    /\ alertShown' = <<>>
    /\ lastInput' = <<>>
    /\ UNCHANGED <<deleteId, showSuccessToast>>
    /\ UNCHANGED <<memoVars, isFormOpen, editingOrder, formData, extras, paymentStatusRef, dataVars,
                   moneyVars, cursorVars, alertVars>>
    /\ isPdfModalOpen' = FALSE
    /\ UNCHANGED <<isLoadingData, inflight, fetchLog>>

\* OrderForm.tsx: handleSubmit; this variant leaves financials.extras as the
\* draft has it
FinalOrder_DraftExtras(n) ==
    [formData EXCEPT
        !.id = IF formData.id # <<>> THEN formData.id ELSE GeneratedId(n),
        !.createdAt = IF formData.createdAt # <<>> THEN formData.createdAt ELSE NowIso]

\* OrderForm.tsx: the order handleSubmit builds from the draft
FinalOrder(n) ==
    [formData EXCEPT
        !.id = IF formData.id # <<>> THEN formData.id ELSE GeneratedId(n),
        !.createdAt = IF formData.createdAt # <<>> THEN formData.createdAt ELSE NowIso,
        !.financials.extras = extras]

\* App.tsx: triggerSaveSuccess closes the form, clears editingOrder and shows
\* the toast
SaveSuccess ==
    /\ isFormOpen' = FALSE
    /\ editingOrder' = <<>>
    /\ showSuccessToast' = TRUE
    /\ RunInitEffects(<<>>)

\* App.tsx: the messages of the alerts
LoadError == "Erro ao carregar dados. Verifique sua conexão."
CreateError == "Erro ao criar ordem."
UpdateError == "Erro ao atualizar ordem."
DeleteError == "Erro ao excluir ordem."
TransactionError == "Erro ao adicionar transação."

\* App.tsx: fetchData awaited by a mutation handler, the three fetches
\* answering: the collections are replaced by what the Gateway holds now
RefetchDone ==
    /\ \E fetched \in FetchResults(dbOrders') :
          orders' = fetched /\ MemoRecomputed(fetched, filter)
    /\ transactions' \in FetchTransactionResults(dbTransactions')
    /\ monthlyGoals' = dbGoals'
    /\ alertShown' = <<>>

\* fetchData awaited by a mutation handler, one of the three fetches throwing:
\* fetchData catches the error, reports it and returns normally
RefetchFailed ==
    /\ UNCHANGED <<orders, transactions, monthlyGoals, memoVars>>
    /\ alertShown' = <<LoadError>>

\* OrderForm.tsx handleSubmit -> App.tsx handleCreate, the Gateway accepting
\* the rows and the re-fetch answering: createServiceOrder, fetchData,
\* triggerSaveSuccess
handleCreateOk(n) ==
    /\ isFormOpen
    /\ editingOrder = <<>>
    /\ Cardinality(dbOrders) < MaxOrders
    /\ LET finalOrder == FinalOrder(n)
       IN /\ finalOrder.id \notin StoredIds(dbOrders)
          /\ lastRequest' = <<[call |-> "createServiceOrder", order |-> finalOrder]>>
          /\ dbOrders' = DbInsert(dbOrders, finalOrder)
    /\ UNCHANGED <<dbTransactions, dbGoals>>
    /\ RefetchDone
    /\ SaveSuccess
    /\ lastInput' = <<>>
    /\ op' = "handleCreate"
    /\ UNCHANGED <<deleteId, moneyVars, cursorVars, alertVars>>
    /\ UNCHANGED sessionVars

\* handleSubmit -> handleCreate, the Gateway accepting the rows and the
\* re-fetch failing: triggerSaveSuccess still runs
handleCreateStale(n) ==
    /\ isFormOpen
    /\ editingOrder = <<>>
    /\ Cardinality(dbOrders) < MaxOrders
    /\ LET finalOrder == FinalOrder(n)
       IN /\ finalOrder.id \notin StoredIds(dbOrders)
          /\ lastRequest' = <<[call |-> "createServiceOrder", order |-> finalOrder]>>
          /\ dbOrders' = DbInsert(dbOrders, finalOrder)
    /\ UNCHANGED <<dbTransactions, dbGoals>>
    /\ RefetchFailed
    /\ SaveSuccess
    /\ lastInput' = <<>>
    /\ op' = "handleCreate"
    /\ UNCHANGED <<deleteId, moneyVars, cursorVars, alertVars>>
    /\ UNCHANGED sessionVars

\* handleSubmit drawing an id that no held order has before it calls the Gateway
handleCreateFail_FreshId(n) ==
    /\ isFormOpen
    /\ editingOrder = <<>>
    /\ FinalOrder(n).id \notin {orders[i].id : i \in DOMAIN orders}
    /\ lastRequest' = <<[call |-> "createServiceOrder", order |-> FinalOrder(n)]>>
    /\ alertShown' = <<CreateError>>
    /\ lastInput' = <<>>
    /\ op' = "handleCreateFailed"
    /\ UNCHANGED <<memoVars, isFormOpen, editingOrder, formData, extras, paymentStatusRef,
                   deleteId, showSuccessToast, dataVars, moneyVars, cursorVars, alertVars>>
    /\ UNCHANGED sessionVars

\* handleSubmit -> handleCreate, createServiceOrder throwing before any row
\* is written: the error is caught and reported, nothing else changes
handleCreateFail(n) ==
    /\ isFormOpen
    /\ editingOrder = <<>>
    /\ lastRequest' = <<[call |-> "createServiceOrder", order |-> FinalOrder(n)]>>
    /\ alertShown' = <<CreateError>>
    /\ lastInput' = <<>>
    /\ op' = "handleCreateFailed"
    /\ UNCHANGED <<memoVars, isFormOpen, editingOrder, formData, extras, paymentStatusRef,
                   deleteId, showSuccessToast, dataVars, moneyVars, cursorVars, alertVars>>
    /\ UNCHANGED sessionVars

\* handleSubmit -> handleCreate, createServiceOrder throwing at the insertion
\* of the extras: the order row is stored without them
handleCreatePartial(n) ==
    /\ isFormOpen
    /\ editingOrder = <<>>
    /\ extras # <<>>
    /\ Cardinality(dbOrders) < MaxOrders
    /\ LET finalOrder == FinalOrder(n)
       IN /\ finalOrder.id \notin StoredIds(dbOrders)
          /\ lastRequest' = <<[call |-> "createServiceOrder", order |-> finalOrder]>>
          /\ dbOrders' = DbInsert(dbOrders, [finalOrder EXCEPT !.financials.extras = <<>>])
    /\ alertShown' = <<CreateError>>
    /\ lastInput' = <<>>
    /\ op' = "handleCreateFailed"
    /\ UNCHANGED <<memoVars, isFormOpen, editingOrder, formData, extras, paymentStatusRef,
                   deleteId, showSuccessToast, orders, transactions, monthlyGoals,
                   dbTransactions, dbGoals, moneyVars, cursorVars, alertVars>>
    /\ UNCHANGED sessionVars

\* handleSubmit -> App.tsx handleUpdate, the Gateway accepting the update and
\* the re-fetch answering
handleUpdateOk ==
    /\ isFormOpen
    /\ editingOrder # <<>>
    /\ LET finalOrder == FinalOrder(0)
       IN /\ lastRequest' = <<[call |-> "updateServiceOrder", order |-> finalOrder]>>
          /\ dbOrders' = DbUpdate(dbOrders, finalOrder)
    /\ UNCHANGED <<dbTransactions, dbGoals>>
    /\ RefetchDone
    /\ SaveSuccess
    /\ lastInput' = <<>>
    /\ op' = "handleUpdate"
    /\ UNCHANGED <<deleteId, moneyVars, cursorVars, alertVars>>
    /\ UNCHANGED sessionVars

\* handleSubmit -> handleUpdate, the Gateway accepting the update and the
\* re-fetch failing
handleUpdateStale ==
    /\ isFormOpen
    /\ editingOrder # <<>>
    /\ LET finalOrder == FinalOrder(0)
       IN /\ lastRequest' = <<[call |-> "updateServiceOrder", order |-> finalOrder]>>
          /\ dbOrders' = DbUpdate(dbOrders, finalOrder)
    /\ UNCHANGED <<dbTransactions, dbGoals>>
    /\ RefetchFailed
    /\ SaveSuccess
    /\ lastInput' = <<>>
    /\ op' = "handleUpdate"
    /\ UNCHANGED <<deleteId, moneyVars, cursorVars, alertVars>>
    /\ UNCHANGED sessionVars

\* handleSubmit -> handleUpdate, updateServiceOrder throwing before any write
handleUpdateFail ==
    /\ isFormOpen
    /\ editingOrder # <<>>
    /\ lastRequest' = <<[call |-> "updateServiceOrder", order |-> FinalOrder(0)]>>
    /\ alertShown' = <<UpdateError>>
    /\ lastInput' = <<>>
    /\ op' = "handleUpdateFailed"
    /\ UNCHANGED <<memoVars, isFormOpen, editingOrder, formData, extras, paymentStatusRef,
                   deleteId, showSuccessToast, dataVars, moneyVars, cursorVars, alertVars>>
    /\ UNCHANGED sessionVars

\* handleSubmit -> handleUpdate, updateServiceOrder throwing at the deletion
\* of the stored extras: the order row is rewritten, its extras are the old ones
handleUpdatePartial ==
    /\ isFormOpen
    /\ editingOrder # <<>>
    /\ LET finalOrder == FinalOrder(0)
       IN /\ lastRequest' = <<[call |-> "updateServiceOrder", order |-> finalOrder]>>
          /\ dbOrders' = {IF o.id = finalOrder.id
                          THEN [finalOrder EXCEPT !.financials.extras = o.financials.extras]
                          ELSE o : o \in dbOrders}
    /\ alertShown' = <<UpdateError>>
    /\ lastInput' = <<>>
    /\ op' = "handleUpdateFailed"
    /\ UNCHANGED <<memoVars, isFormOpen, editingOrder, formData, extras, paymentStatusRef,
                   deleteId, showSuccessToast, orders, transactions, monthlyGoals,
                   dbTransactions, dbGoals, moneyVars, cursorVars, alertVars>>
    /\ UNCHANGED sessionVars

FormNext ==
    \/ openNew
    \/ \E i \in DOMAIN orders : openEdit(i)
    \/ onClose
    \/ \E stage \in {"deposit", "pickup", "delivery"} : setPaymentStatus(stage)
    \/ \E name \in ClientNames : setClientName(name)
    \/ \E n \in 0..MaxRandom : handleCreateOk(n)
    \/ \E n \in 0..MaxRandom : handleCreateFail(n)
    \/ handleUpdateOk
    \/ handleUpdateFail

SpecForm == FormInit /\ [][FormNext]_vars

\* --------------------------------------- specification of the extras editor
MaxRoleQty == 3
MaxEntries == 2

\* OrderForm.tsx: ROLE_CONFIGS; this variant gives the roles a default cost
ROLE_CONFIGS_WithDefaults ==
    <<[type |-> "helper", label |-> <<"Ajudantes">>, defaultCost |-> 50],
      [type |-> "assembler", label |-> <<"Montadores">>, defaultCost |-> 50],
      [type |-> "packer", label |-> <<"Embaladores">>, defaultCost |-> 50]>>

\* OrderForm.tsx: ROLE_CONFIGS
ROLE_CONFIGS ==
    <<[type |-> "helper", label |-> <<"Ajudantes">>, defaultCost |-> 0],
      [type |-> "assembler", label |-> <<"Montadores">>, defaultCost |-> 0],
      [type |-> "packer", label |-> <<"Embaladores">>, defaultCost |-> 0]>>

Roles == {ROLE_CONFIGS[i].type : i \in DOMAIN ROLE_CONFIGS}

\* ROLE_CONFIGS.find(c => c.type === type)
RoleConfig(type) == ROLE_CONFIGS[CHOOSE i \in DOMAIN ROLE_CONFIGS : ROLE_CONFIGS[i].type = type]

\* extras.filter(e => e.type === type) and extras.filter(e => e.type !== type)
OfType(extrasNow, type) == SelectSeq(extrasNow, LAMBDA e : e.type = type)

\* extras.filter(e => e.type !== type) handing the entries back last first
NotOfType_Reversed(extrasNow, type) ==
    LET kept == SelectSeq(extrasNow, LAMBDA e : e.type # type)
    IN [i \in DOMAIN kept |-> kept[Len(kept) + 1 - i]]

NotOfType(extrasNow, type) == SelectSeq(extrasNow, LAMBDA e : e.type # type)

RECURSIVE SumQty(_)
SumQty(items) == IF items = <<>> THEN 0 ELSE Head(items).qty + SumQty(Tail(items))

\* OrderForm.tsx: getRoleData
getRoleData(extrasNow, type) ==
    LET items == OfType(extrasNow, type)
    IN [totalQty |-> SumQty(items),
        unitCost |-> IF Len(items) > 0 THEN items[1].cost ELSE RoleConfig(type).defaultCost]

\* `auto-${type}-${Date.now()}`
AutoId(type, t) == <<"auto-", type, "-">> \o NumStr(t)

\* OrderForm.tsx: updateRole, the list it passes to setExtras; this variant
\* appends the new entry to the whole list
updateRole_Append(extrasNow, type, field, value, t) ==
    LET safeValue == IF value > 0 THEN value ELSE 0
        currentData == getRoleData(extrasNow, type)
        newQty == IF field = "qty" THEN safeValue ELSE currentData.totalQty
        newCost == IF field = "cost" THEN safeValue ELSE currentData.unitCost
        newEntry == [id |-> AutoId(type, t), type |-> type, name |-> RoleConfig(type).label,
                     qty |-> newQty, cost |-> newCost]
    IN IF newQty > 0 \/ newCost > 0 THEN Append(extrasNow, newEntry)
       ELSE NotOfType(extrasNow, type)

\* OrderForm.tsx: updateRole, the list it passes to setExtras
updateRole(extrasNow, type, field, value, t) ==
    LET safeValue == IF value > 0 THEN value ELSE 0
        otherExtras == NotOfType(extrasNow, type)
        currentData == getRoleData(extrasNow, type)
        newQty == IF field = "qty" THEN safeValue ELSE currentData.totalQty
        newCost == IF field = "cost" THEN safeValue ELSE currentData.unitCost
        newEntry == [id |-> AutoId(type, t), type |-> type, name |-> RoleConfig(type).label,
                     qty |-> newQty, cost |-> newCost]
    IN IF newQty > 0 \/ newCost > 0 THEN Append(otherExtras, newEntry)
       ELSE otherExtras

\* the values the role row of the form can pass to updateRole: the "-" and
\* "+" buttons around the quantity, the number typed in the cost input
RoleInputs(extrasNow, type) ==
    LET totalQty == getRoleData(extrasNow, type).totalQty
    IN {[field |-> "qty", value |-> IF totalQty - 1 > 0 THEN totalQty - 1 ELSE 0],
        [field |-> "qty", value |-> totalQty + 1],
        [field |-> "cost", value |-> 0],
        [field |-> "cost", value |-> Scenario.expense],
        [field |-> "cost", value |-> -1]}

\* OrderForm.tsx: a click or an input in the row of a role
roleInput(type, field, value) ==
    /\ isFormOpen
    /\ [field |-> field, value |-> value] \in RoleInputs(extras, type)
    /\ extras' = updateRole(extras, type, field, value, now)
    /\ lastInput' = <<[type |-> type, field |-> field, value |-> value]>>
    /\ lastRequest' = <<>>
    /\ alertShown' = <<>>
    /\ op' = "updateRole"
    /\ UNCHANGED <<memoVars, isFormOpen, editingOrder, formData, paymentStatusRef, deleteId,
                   showSuccessToast, dataVars, moneyVars, cursorVars, alertVars>>
    /\ UNCHANGED sessionVars

\* Math.random().toString(36).substr(2, 9)
RandomId(n) == <<"r">> \o NumStr(n)

\* OrderForm.tsx: addGenericExtra
addGenericExtra(n) ==
    /\ isFormOpen
    /\ extras' = Append(extras, [id |-> RandomId(n), type |-> "other", name |-> <<>>,
                                 qty |-> 1, cost |-> 0])
    /\ lastRequest' = <<>>
    /\ Quiet
    /\ op' = "addGenericExtra"
    /\ UNCHANGED <<memoVars, isFormOpen, editingOrder, formData, paymentStatusRef, dataVars,
                   moneyVars, cursorVars, alertVars>>
    /\ UNCHANGED sessionVars

\* OrderForm.tsx: updateGenericExtra(id, 'cost', Number(e.target.value))
updateGenericExtra(id, value) ==
    /\ isFormOpen
    /\ \E i \in DOMAIN extras : extras[i].type = "other" /\ extras[i].id = id
    /\ LET safeValue == IF value > 0 THEN value ELSE 0
       IN extras' = [i \in DOMAIN extras |->
                        IF extras[i].id = id THEN [extras[i] EXCEPT !.cost = safeValue]
                        ELSE extras[i]]
    /\ lastRequest' = <<>>
    /\ Quiet
    /\ op' = "updateGenericExtra"
    /\ UNCHANGED <<memoVars, isFormOpen, editingOrder, formData, paymentStatusRef, dataVars,
                   moneyVars, cursorVars, alertVars>>
    /\ UNCHANGED sessionVars

\* OrderForm.tsx: removeGenericExtra
removeGenericExtra(id) ==
    /\ isFormOpen
    /\ \E i \in DOMAIN extras : extras[i].type = "other" /\ extras[i].id = id
    /\ extras' = SelectSeq(extras, LAMBDA e : e.id # id)
    /\ lastRequest' = <<>>
    /\ Quiet
    /\ op' = "removeGenericExtra"
    /\ UNCHANGED <<memoVars, isFormOpen, editingOrder, formData, paymentStatusRef, dataVars,
                   moneyVars, cursorVars, alertVars>>
    /\ UNCHANGED sessionVars

\* a stored order that carries a role entry and a generic entry
ExtrasSeedOrder ==
    [SeedOrder EXCEPT !.financials.extras =
        <<[id |-> AutoId("helper", 0), type |-> "helper", name |-> RoleConfig("helper").label,
           qty |-> 2, cost |-> Scenario.expense],
          [id |-> RandomId(0), type |-> "other", name |-> <<>>, qty |-> 1, cost |-> 0]>>]

ExtrasInit ==
    /\ FormIdle
    /\ dbOrders \in {{}, {ExtrasSeedOrder}}
    /\ orders \in FetchResults(dbOrders)
    /\ transactions = <<>>
    /\ monthlyGoals = <<>>
    /\ dbTransactions = {}
    /\ dbGoals = <<>>
    /\ MoneyIdle
    /\ CursorIdle
    /\ AlertIdle
    /\ MemoInit
    /\ SessionIdle(FALSE)
    /\ op = "init"

ExtrasNext ==
    \/ openNew
    \/ \E i \in DOMAIN orders : openEdit(i)
    \/ onClose
    \/ \E type \in Roles : \E in \in RoleInputs(extras, type) :
          /\ in.field = "qty" => in.value <= MaxRoleQty
          /\ Len(updateRole(extras, type, in.field, in.value, now)) <= MaxEntries
          /\ roleInput(type, in.field, in.value)
    \/ \E n \in 0..MaxRandom : Len(extras) < MaxEntries /\ addGenericExtra(n)
    \/ \E i \in DOMAIN extras : updateGenericExtra(extras[i].id, Scenario.expense)
    \/ \E i \in DOMAIN extras : removeGenericExtra(extras[i].id)

SpecExtras == ExtrasInit /\ [][ExtrasNext]_vars



\* ------------------------------------------- specification of the dashboard
\* App.tsx: the memos and the goal-widget key, functions of the state
monthlyRevenue == MonthlyNet(orders, transactions, viewDate)

revenueViewValue == MonthlyNet(orders, transactions, revenueViewDate)

currentMonthKey == DateKey(viewDate)

\* App.tsx: orders.forEach of globalPending
RECURSIVE PendingFold(_, _)
PendingFold(orderList, pendingReceivables) ==
    IF orderList = <<>> THEN pendingReceivables
    ELSE LET order == Head(orderList)
             rcv == calculateReceivedAmount(order)
         IN PendingFold(Tail(orderList),
                DblAdd(pendingReceivables,
                       DblSub(DblOfInt(order.financials.totalValue), rcv)))

globalPending_ViewedMonth ==
    LET InMonth(order) == StartsWith(order.pickupDate, DateKey(revenueViewDate))
    IN PendingFold(SelectSeq(orders, InMonth), DblZero)

\* App.tsx: the memo globalPending
globalPending == PendingFold(orders, DblZero)

MonthsFromToday(date) == (date.year * 12 + date.month) - (Today.year * 12 + Today.month)

InNavRange(date) == MonthsFromToday(date) \in (0 - MaxNav)..MaxNav

DashDates == {DateStr(2024, 6, 5), DateStr(2024, 5, 28)}

HelperExtra == [id |-> <<"h">>, type |-> "helper", name |-> <<"A", "j">>, qty |-> 2, cost |-> 1]

\* the order of the scenario, picked up in either month
ScenarioOrder(d) ==
    [emptyOrder EXCEPT !.clientName = <<"A", "n", "a">>, !.createdAt = NowIso,
                       !.pickupDate = d, !.isCostsPaid = TRUE,
                       !.paymentStatus = [deposit |-> TRUE, pickup |-> TRUE, delivery |-> FALSE],
                       !.progress = 60,
                       !.financials = [totalValue |-> Scenario.totalValue,
                                       driverCost |-> Scenario.driverCost, extras |-> <<>>]]

\* a fully paid order with an extra, its costs paid or not
SmallOrder(c) ==
    [emptyOrder EXCEPT !.clientName = <<"A", "n", "a">>, !.createdAt = NowIso,
                       !.pickupDate = DateStr(2024, 6, 5), !.isCostsPaid = c,
                       !.paymentStatus = [deposit |-> TRUE, pickup |-> TRUE, delivery |-> TRUE],
                       !.progress = 100,
                       !.financials = [totalValue |-> 3, driverCost |-> 1,
                                       extras |-> <<HelperExtra>>]]

\* an order of a past year with nothing received
UnpaidOrder ==
    [emptyOrder EXCEPT !.clientName = <<"A", "n", "a">>, !.createdAt = NowIso,
                       !.pickupDate = DateStr(2023, 3, 10),
                       !.progress = 0,
                       !.financials = [totalValue |-> Scenario.unpaid, driverCost |-> 0,
                                       extras |-> <<>>]]

DashOrderInputs ==
    {ScenarioOrder(d) : d \in DashDates} \cup {SmallOrder(c) : c \in BOOLEAN} \cup {UnpaidOrder}

DashTransactionInputs ==
    {[description |-> <<>>, amount |-> Scenario.expense, type |-> t, date |-> d] :
        t \in {"income", "expense"}, d \in {DateStr(2024, 6, 20), DateStr(2024, 5, 28)}}

\* the rows the Gateway holds: row k has the k-th id
StoredOrderSets(inputs, maxRows) ==
    UNION {{{[f[k] EXCEPT !.id = GeneratedId(k)] : k \in 1..n} : f \in [1..n -> inputs]} :
           n \in 0..maxRows}

StoredTransactionSets ==
    UNION {{{[id |-> NumStr(k), description |-> f[k].description, amount |-> f[k].amount,
              type |-> f[k].type, date |-> f[k].date] : k \in 1..n} :
            f \in [1..n -> DashTransactionInputs]} : n \in 0..MaxDashTx}

GoalMaps == {DateKey(Today) :> 5000}

\* the application after its first fetchData, whatever the Gateway holds
DashInit ==
    /\ dbOrders \in StoredOrderSets(DashOrderInputs, MaxDashOrders)
    /\ orders \in FetchResults(dbOrders)
    /\ dbTransactions \in StoredTransactionSets
    /\ transactions \in FetchTransactionResults(dbTransactions)
    /\ dbGoals \in GoalMaps
    /\ monthlyGoals = dbGoals
    /\ CursorIdle
    /\ MoneyIdle
    /\ AlertIdle
    /\ FormIdle
    /\ MemoInit
    /\ SessionIdle(FALSE)
    /\ op = "init"

handlePrevRevenueMonth_SharedCursor ==
    /\ InNavRange(NewDateYM(revenueViewDate.year, revenueViewDate.month - 1))
    /\ revenueViewDate' = NewDateYM(revenueViewDate.year, revenueViewDate.month - 1)
    /\ viewDate' = revenueViewDate'
    /\ op' = "handlePrevRevenueMonth"
    /\ UNCHANGED <<memoVars, dataVars, moneyVars, alertVars, formVars>>
    /\ UNCHANGED sessionVars

\* App.tsx: handlePrevRevenueMonth
handlePrevRevenueMonth ==
    /\ InNavRange(NewDateYM(revenueViewDate.year, revenueViewDate.month - 1))
    /\ revenueViewDate' = NewDateYM(revenueViewDate.year, revenueViewDate.month - 1)
    /\ op' = "handlePrevRevenueMonth"
    /\ UNCHANGED <<memoVars, viewDate, dataVars, moneyVars, alertVars, formVars>>
    /\ UNCHANGED sessionVars

\* App.tsx: handleNextRevenueMonth
handleNextRevenueMonth ==
    /\ InNavRange(NewDateYM(revenueViewDate.year, revenueViewDate.month + 1))
    /\ revenueViewDate' = NewDateYM(revenueViewDate.year, revenueViewDate.month + 1)
    /\ op' = "handleNextRevenueMonth"
    /\ UNCHANGED <<memoVars, viewDate, dataVars, moneyVars, alertVars, formVars>>
    /\ UNCHANGED sessionVars

\* App.tsx: handlePrevMonth (goal widget)
handlePrevMonth ==
    /\ InNavRange(NewDateYM(viewDate.year, viewDate.month - 1))
    /\ viewDate' = NewDateYM(viewDate.year, viewDate.month - 1)
    /\ op' = "handlePrevMonth"
    /\ UNCHANGED <<memoVars, revenueViewDate, dataVars, moneyVars, alertVars, formVars>>
    /\ UNCHANGED sessionVars

\* App.tsx: handleNextMonth (goal widget)
handleNextMonth ==
    /\ InNavRange(NewDateYM(viewDate.year, viewDate.month + 1))
    /\ viewDate' = NewDateYM(viewDate.year, viewDate.month + 1)
    /\ op' = "handleNextMonth"
    /\ UNCHANGED <<memoVars, revenueViewDate, dataVars, moneyVars, alertVars, formVars>>
    /\ UNCHANGED sessionVars

DashNext ==
    \/ handlePrevRevenueMonth
    \/ handleNextRevenueMonth
    \/ handlePrevMonth
    \/ handleNextMonth

SpecDash == DashInit /\ [][DashNext]_vars


\* ----------------------------------------------- specification of the alert
\* the state after a pass, and the record of raises kept beside it
PassApplied(result) ==
    /\ urgentAlert' = result.urgentAlert
    /\ lastExpirationAlertTime' = result.lastExpirationAlertTime
    /\ raiseLog' = [raised |-> result.raised,
                    last |-> IF result.raised THEN <<now>> ELSE raiseLog.last]

NoPass ==
    /\ raiseLog' = [raiseLog EXCEPT !.raised = FALSE]
    /\ UNCHANGED lastExpirationAlertTime

Letters == <<"A", "B", "C", "D", "E">>

\* the four orders the rule is stated on: overdue, five days ahead, six days
\* ahead, and delivered today; the k-th has the k-th id and the k-th client
AlertCatalog ==
    LET variants ==
            <<[pickupDate |-> DateStr(2024, 6, 9),
               paymentStatus |-> [deposit |-> TRUE, pickup |-> TRUE, delivery |-> FALSE]],
              [pickupDate |-> DateStr(2024, 6, 15),
               paymentStatus |-> [deposit |-> TRUE, pickup |-> FALSE, delivery |-> FALSE]],
              [pickupDate |-> DateStr(2024, 6, 16),
               paymentStatus |-> [deposit |-> TRUE, pickup |-> TRUE, delivery |-> FALSE]],
              [pickupDate |-> DateStr(2024, 6, 10),
               paymentStatus |-> [deposit |-> TRUE, pickup |-> TRUE, delivery |-> TRUE]]>>
    IN {[emptyOrder EXCEPT !.id = GeneratedId(k), !.createdAt = NowIso,
                           !.clientName = <<Letters[k]>>,
                           !.pickupDate = variants[k].pickupDate,
                           !.paymentStatus = variants[k].paymentStatus,
                           !.progress = calculateProgress(variants[k].paymentStatus)] :
           k \in DOMAIN variants}

\* the rows the Gateway holds: at most MaxAlertOrders of them
AlertStoredSets == {s \in SUBSET AlertCatalog : Cardinality(s) <= MaxAlertOrders}

\* new Date() at clock reading t, within the month of EpochDate
DateOfTime(t) == [Today EXCEPT !.day = Today.day + (t \div MsPerDay)]

\* the application mounted, nothing fetched yet
AlertInit ==
    /\ DataIdle
    /\ CursorIdle
    /\ MoneyIdle
    /\ AlertIdle
    /\ FormIdle
    /\ MemoInit
    /\ SessionIdle(TRUE)
    /\ op = "init"

\* App.tsx: fetchData and the effect on [orders] that follows setOrders: the
\* Gateway holds any rows by now; goals are fetched as they were
fetchData(stored) ==
    /\ \E fetched \in FetchResults(stored) :
          /\ dbOrders' = stored
          /\ orders' = fetched
          /\ MemoRecomputed(fetched, filter)
          /\ transactions' \in FetchTransactionResults(dbTransactions)
          /\ IF Len(fetched) > 0
             THEN PassApplied(checkCriticalOrders(fetched, urgentAlert,
                                                  lastExpirationAlertTime, now))
             ELSE NoPass /\ UNCHANGED urgentAlert
          /\ op' = "fetchData"
          /\ monthlyGoals' = dbGoals
          /\ UNCHANGED <<dbTransactions, dbGoals, cursorVars, moneyVars, formVars,
                         filter, now, advances>>
    /\ isLoadingData' = FALSE
    /\ UNCHANGED <<inflight, fetchLog, isPdfModalOpen>>

\* App.tsx: the setInterval callback of the effect on [orders]
tick ==
    /\ PassApplied(checkCriticalOrders(orders, urgentAlert, lastExpirationAlertTime, now))
    /\ op' = "tick"
    /\ UNCHANGED <<memoVars, dataVars, cursorVars, moneyVars, formVars, filter, now, advances>>
    /\ UNCHANGED sessionVars

\* the clock moves forward by a tick period, by the window, or by the rest of
\* a day after a window
AdvanceSteps == {TickInterval, FIVE_HOURS, MsPerDay - FIVE_HOURS}

advanceTime(d) ==
    /\ advances < MaxAdvances
    /\ now' = now + d
    /\ advances' = advances + 1
    /\ NoPass
    /\ op' = "advanceTime"
    /\ UNCHANGED <<memoVars, dataVars, cursorVars, moneyVars, formVars, filter, urgentAlert>>
    /\ UNCHANGED sessionVars

\* App.tsx: handleUrgentAlertClick, on the banner shown while urgentAlert.show
handleUrgentAlertClick ==
    /\ urgentAlert.show
    /\ filter' = "critical"
    /\ filteredOrders' = IF filter = "critical" THEN filteredOrders
                         ELSE FilteredOrders(orders, "critical", now)
    /\ urgentAlert' = [urgentAlert EXCEPT !.show = FALSE]
    /\ NoPass
    /\ op' = "handleUrgentAlertClick"
    /\ UNCHANGED <<counts, dataVars, cursorVars, moneyVars, formVars, now, advances>>
    /\ UNCHANGED sessionVars

\* App.tsx: dismissUrgentAlert
dismissUrgentAlert ==
    /\ urgentAlert.show
    /\ urgentAlert' = [urgentAlert EXCEPT !.show = FALSE]
    /\ NoPass
    /\ op' = "dismissUrgentAlert"
    /\ UNCHANGED <<memoVars, dataVars, cursorVars, moneyVars, formVars, filter, now, advances>>
    /\ UNCHANGED sessionVars

\* the page is reloaded: component state restarts from its useState
\* initialisers, localStorage and the Gateway keep their contents
reload ==
    /\ orders' = <<>>
    /\ transactions' = <<>>
    /\ monthlyGoals' = <<>>
    /\ filter' = "active"
    /\ MemoRecomputed(<<>>, "active")
    /\ urgentAlert' = [count |-> 0, names |-> <<>>, show |-> FALSE]
    /\ viewDate' = DateOfTime(now)
    /\ revenueViewDate' = DateOfTime(now)
    /\ isFormOpen' = FALSE
    /\ editingOrder' = <<>>
    /\ formData' = ProgressSyncEffect(emptyOrder, <<>>, EmptyRef)
    /\ extras' = <<>>
    /\ paymentStatusRef' = EmptyRef
    /\ lastRequest' = <<>>
    /\ deleteId' = <<>>
    /\ showSuccessToast' = FALSE
    /\ alertShown' = <<>>
    /\ lastInput' = <<>>
    /\ NoPass
    /\ op' = "reload"
    /\ isLoadingData' = TRUE
    /\ inflight' = <<>>
    /\ fetchLog' = [started |-> 0, data |-> 0, goal |-> 0]
    /\ isPdfModalOpen' = FALSE
    /\ UNCHANGED <<dbOrders, dbTransactions, dbGoals, moneyVars, now, advances>>

AlertNext ==
    \/ \E stored \in AlertStoredSets : fetchData(stored)
    \/ tick
    \/ \E d \in AdvanceSteps : advanceTime(d)
    \/ handleUrgentAlertClick
    \/ dismissUrgentAlert
    \/ reload

SpecAlert == AlertInit /\ [][AlertNext]_vars


\* ------------------------------------- specification of the list and counts
\* App.tsx: onClick of a filter button, () => setFilter(f.id)
setFilter(f) ==
    /\ f # filter
    /\ filter' = f
    /\ filteredOrders' = FilteredOrders(orders, f, now)
    /\ NoPass
    /\ op' = "setFilter"
    /\ UNCHANGED <<counts, dataVars, cursorVars, moneyVars, formVars, urgentAlert, now,
                   advances>>
    /\ UNCHANGED sessionVars

\* the orders of the alert that are not overdue and one more with the pickup
\* date of the second
ListCatalog ==
    {o \in AlertCatalog : o.pickupDate # DateStr(2024, 6, 9)} \cup
        {[emptyOrder EXCEPT !.id = GeneratedId(5), !.createdAt = NowIso,
                            !.clientName = <<Letters[5]>>,
                            !.pickupDate = DateStr(2024, 6, 15),
                            !.paymentStatus = [deposit |-> TRUE, pickup |-> TRUE,
                                               delivery |-> FALSE],
                            !.progress = 60]}

ListStoredSets == {s \in SUBSET ListCatalog : Cardinality(s) <= MaxListOrders}

ListNext ==
    \/ \E stored \in ListStoredSets : fetchData(stored)
    \/ \E f \in {"all", "active", "completed", "critical"} : setFilter(f)
    \/ \E d \in {FIVE_HOURS, MsPerDay - FIVE_HOURS} : advanceTime(d)

SpecList == AlertInit /\ [][ListNext]_vars

\* ------------------------------ specification of saving and deleting orders
MaxTx == 1

\* OrderForm.tsx: the delete button of the footer, shown with initialData,
\* onClick={() => onDelete(formData.id)} -> App.tsx onRequestDelete
onRequestDelete ==
    /\ isFormOpen
    /\ editingOrder # <<>>
    /\ deleteId' = <<formData.id>>
    /\ lastInput' = <<formData.id>>
    /\ lastRequest' = <<>>
    /\ alertShown' = <<>>
    /\ op' = "onRequestDelete"
    /\ UNCHANGED <<memoVars, isFormOpen, editingOrder, formData, extras, paymentStatusRef,
                   showSuccessToast, dataVars, moneyVars, cursorVars, alertVars>>
    /\ UNCHANGED sessionVars

\* App.tsx: the backdrop and the "Cancelar" button of the delete prompt,
\* () => setDeleteId(null)
cancelDelete ==
    /\ deleteId # <<>>
    /\ deleteId' = <<>>
    /\ lastInput' = <<>>
    /\ lastRequest' = <<>>
    /\ alertShown' = <<>>
    /\ op' = "cancelDelete"
    /\ UNCHANGED <<memoVars, isFormOpen, editingOrder, formData, extras, paymentStatusRef,
                   showSuccessToast, dataVars, moneyVars, cursorVars, alertVars>>
    /\ UNCHANGED sessionVars

\* supabaseService.ts: deleteServiceOrder removes the row with that id
DbDelete(stored, id) == {o \in stored : o.id # id}

\* what the three setters at the end of confirmDelete leave
DeleteSuccess ==
    /\ deleteId' = <<>>
    /\ isFormOpen' = FALSE
    /\ editingOrder' = <<>>
    /\ RunInitEffects(<<>>)

\* App.tsx: confirmDelete; this variant leaves the form and editingOrder alone
confirmDeleteOk_KeepsForm ==
    /\ deleteId # <<>>
    /\ lastRequest' = <<[call |-> "deleteServiceOrder", id |-> deleteId[1]]>>
    /\ dbOrders' = DbDelete(dbOrders, deleteId[1])
    /\ UNCHANGED <<dbTransactions, dbGoals>>
    /\ RefetchDone
    /\ deleteId' = <<>>
    /\ lastInput' = <<>>
    /\ op' = "confirmDelete"
    /\ UNCHANGED <<isFormOpen, editingOrder, formData, extras, paymentStatusRef,
                   showSuccessToast, moneyVars, cursorVars, alertVars>>
    /\ UNCHANGED sessionVars

\* App.tsx: confirmDelete ("Sim, Excluir"), the Gateway deleting the row and
\* the re-fetch answering
confirmDeleteOk ==
    /\ deleteId # <<>>
    /\ lastRequest' = <<[call |-> "deleteServiceOrder", id |-> deleteId[1]]>>
    /\ dbOrders' = DbDelete(dbOrders, deleteId[1])
    /\ UNCHANGED <<dbTransactions, dbGoals>>
    /\ RefetchDone
    /\ DeleteSuccess
    /\ lastInput' = <<>>
    /\ op' = "confirmDelete"
    /\ UNCHANGED <<showSuccessToast, moneyVars, cursorVars, alertVars>>
    /\ UNCHANGED sessionVars

\* confirmDelete, the Gateway deleting the row and the re-fetch failing
confirmDeleteStale ==
    /\ deleteId # <<>>
    /\ lastRequest' = <<[call |-> "deleteServiceOrder", id |-> deleteId[1]]>>
    /\ dbOrders' = DbDelete(dbOrders, deleteId[1])
    /\ UNCHANGED <<dbTransactions, dbGoals>>
    /\ RefetchFailed
    /\ DeleteSuccess
    /\ lastInput' = <<>>
    /\ op' = "confirmDelete"
    /\ UNCHANGED <<showSuccessToast, moneyVars, cursorVars, alertVars>>
    /\ UNCHANGED sessionVars

\* App.tsx: confirmDelete; this variant clears the pending id when the
\* Gateway fails
confirmDeleteFail_ClearsId ==
    /\ deleteId # <<>>
    /\ lastRequest' = <<[call |-> "deleteServiceOrder", id |-> deleteId[1]]>>
    /\ alertShown' = <<DeleteError>>
    /\ deleteId' = <<>>
    /\ lastInput' = <<>>
    /\ op' = "confirmDeleteFailed"
    /\ UNCHANGED <<memoVars, isFormOpen, editingOrder, formData, extras, paymentStatusRef,
                   showSuccessToast, dataVars, moneyVars, cursorVars, alertVars>>
    /\ UNCHANGED sessionVars

\* confirmDelete, deleteServiceOrder throwing: the error is caught and reported
confirmDeleteFail ==
    /\ deleteId # <<>>
    /\ lastRequest' = <<[call |-> "deleteServiceOrder", id |-> deleteId[1]]>>
    /\ alertShown' = <<DeleteError>>
    /\ lastInput' = <<>>
    /\ op' = "confirmDeleteFailed"
    /\ UNCHANGED <<memoVars, isFormOpen, editingOrder, formData, extras, paymentStatusRef,
                   deleteId, showSuccessToast, dataVars, moneyVars, cursorVars, alertVars>>
    /\ UNCHANGED sessionVars

\* TransactionModal.tsx: the transaction handleSubmit builds
NewTransaction(type) ==
    [id |-> <<"TX-">> \o NumStr(now), description |-> <<"x">>, amount |-> Scenario.expense,
     type |-> type, date |-> DateStr(2024, 6, 10)]

\* App.tsx: handleAddTransaction, the Gateway accepting the row and the
\* re-fetch answering
handleAddTransactionOk(type) ==
    /\ Cardinality(dbTransactions) < MaxTx
    /\ NewTransaction(type).id \notin {t.id : t \in dbTransactions}
    /\ lastRequest' = <<[call |-> "createTransaction", transaction |-> NewTransaction(type)]>>
    /\ dbTransactions' = dbTransactions \cup {NewTransaction(type)}
    /\ UNCHANGED <<dbOrders, dbGoals>>
    /\ RefetchDone
    /\ showSuccessToast' = TRUE
    /\ lastInput' = <<>>
    /\ op' = "handleAddTransaction"
    /\ UNCHANGED <<isFormOpen, editingOrder, formData, extras, paymentStatusRef, deleteId,
                   moneyVars, cursorVars, alertVars>>
    /\ UNCHANGED sessionVars

\* handleAddTransaction, the Gateway accepting the row and the re-fetch failing
handleAddTransactionStale(type) ==
    /\ Cardinality(dbTransactions) < MaxTx
    /\ NewTransaction(type).id \notin {t.id : t \in dbTransactions}
    /\ lastRequest' = <<[call |-> "createTransaction", transaction |-> NewTransaction(type)]>>
    /\ dbTransactions' = dbTransactions \cup {NewTransaction(type)}
    /\ UNCHANGED <<dbOrders, dbGoals>>
    /\ RefetchFailed
    /\ showSuccessToast' = TRUE
    /\ lastInput' = <<>>
    /\ op' = "handleAddTransaction"
    /\ UNCHANGED <<isFormOpen, editingOrder, formData, extras, paymentStatusRef, deleteId,
                   moneyVars, cursorVars, alertVars>>
    /\ UNCHANGED sessionVars

\* handleAddTransaction, createTransaction throwing
handleAddTransactionFail(type) ==
    /\ lastRequest' = <<[call |-> "createTransaction", transaction |-> NewTransaction(type)]>>
    /\ alertShown' = <<TransactionError>>
    /\ lastInput' = <<>>
    /\ op' = "handleAddTransactionFailed"
    /\ UNCHANGED <<memoVars, isFormOpen, editingOrder, formData, extras, paymentStatusRef,
                   deleteId, showSuccessToast, dataVars, moneyVars, cursorVars, alertVars>>
    /\ UNCHANGED sessionVars

\* App.tsx: the callback of setTimeout(() => setShowSuccessToast(false), 1900)
hideSuccessToast ==
    /\ showSuccessToast
    /\ showSuccessToast' = FALSE
    /\ lastInput' = <<>>
    /\ lastRequest' = <<>>
    /\ alertShown' = <<>>
    /\ op' = "hideSuccessToast"
    /\ UNCHANGED <<memoVars, isFormOpen, editingOrder, formData, extras, paymentStatusRef,
                   deleteId, dataVars, moneyVars, cursorVars, alertVars>>
    /\ UNCHANGED sessionVars

\* the application after its first fetchData: the Gateway holds no order or
\* one order with extras, no transaction, and the goal of the month
SaveInit ==
    /\ FormIdle
    /\ dbOrders \in {{}, {ExtrasSeedOrder}}
    /\ orders \in FetchResults(dbOrders)
    /\ dbTransactions = {}
    /\ transactions = <<>>
    /\ dbGoals \in GoalMaps
    /\ monthlyGoals = dbGoals
    /\ MoneyIdle
    /\ CursorIdle
    /\ AlertIdle
    /\ MemoInit
    /\ SessionIdle(FALSE)
    /\ op = "init"

\* the application after its first fetchData, as for SpecSave
SubmitInit == SaveInit

SubmitNext ==
    \/ openNew
    \/ \E i \in DOMAIN orders : openEdit(i)
    \/ onClose
    \/ \E name \in ClientNames : setClientName(name)
    \/ \E in \in RoleInputs(extras, "helper") :
          /\ in.field = "qty" /\ in.value <= 1
          /\ roleInput("helper", in.field, in.value)
    \/ \E i \in DOMAIN extras : removeGenericExtra(extras[i].id)
    \/ \E n \in 0..MaxRandom : handleCreateOk(n)
    \/ \E n \in 0..MaxRandom : handleCreateFail(n)
    \/ \E n \in 0..MaxRandom : handleCreatePartial(n)
    \/ handleUpdateOk
    \/ handleUpdateFail
    \/ handleUpdatePartial
    \/ hideSuccessToast

SpecSubmit == SubmitInit /\ [][SubmitNext]_vars

SaveNext ==
    \/ openNew
    \/ \E i \in DOMAIN orders : openEdit(i)
    \/ onClose
    \/ \E n \in 0..MaxRandom : handleCreateOk(n)
    \/ \E n \in 0..MaxRandom : handleCreateStale(n)
    \/ \E n \in 0..MaxRandom : handleCreateFail(n)
    \/ handleUpdateOk
    \/ handleUpdateStale
    \/ handleUpdateFail
    \/ onRequestDelete
    \/ cancelDelete
    \/ confirmDeleteOk
    \/ confirmDeleteStale
    \/ confirmDeleteFail
    \/ \E type \in {"income", "expense"} : handleAddTransactionOk(type)
    \/ \E type \in {"income", "expense"} : handleAddTransactionStale(type)
    \/ \E type \in {"income", "expense"} : handleAddTransactionFail(type)
    \/ hideSuccessToast

SpecSave == SaveInit /\ [][SaveNext]_vars

\* --------------------- specification of the form under a failing Gateway
\* every mutation is either accepted and followed by its re-fetch, or fails
\* at one of its steps
FailureInit == SaveInit

FailureNext ==
    \/ openNew
    \/ \E i \in DOMAIN orders : openEdit(i)
    \/ onClose
    \/ \E in \in RoleInputs(extras, "helper") :
          /\ in.field = "qty" /\ in.value <= 1
          /\ roleInput("helper", in.field, in.value)
    \/ \E n \in 0..MaxRandom : handleCreateOk(n)
    \/ \E n \in 0..MaxRandom : handleCreateFail(n)
    \/ \E n \in 0..MaxRandom : handleCreatePartial(n)
    \/ handleUpdateOk
    \/ handleUpdateFail
    \/ handleUpdatePartial
    \/ onRequestDelete
    \/ cancelDelete
    \/ confirmDeleteOk
    \/ confirmDeleteFail
    \/ hideSuccessToast

SpecFailure == FailureInit /\ [][FailureNext]_vars

\* ------------------------------------------- fetches that are in flight
\* the fetchData calls one run starts at most
MaxFetches == 2

\* a read of the Promise.all of fetchData: <<>> while it is pending,
\* <<"ok", rows>> once answered, <<"failed">> once it threw
ReadOk(rows) == <<"ok", rows>>

ReadFailed == <<"failed">>

\* App.tsx: fetchData up to its await; kind names the handler that goes on
\* after it
BeginFetch(kind) ==
    /\ fetchLog.started < MaxFetches
    /\ isLoadingData' = TRUE
    /\ inflight' = Append(inflight, [kind |-> kind, no |-> fetchLog.started + 1,
                                     orders |-> <<>>, transactions |-> <<>>, goals |-> <<>>])
    /\ fetchLog' = [fetchLog EXCEPT !.started = @ + 1]

\* supabaseService.ts: fetchOrders, fetchTransactions and fetchMonthlyGoals
\* answering the fetchData call i with what the Gateway holds, each of them
\* succeeding or throwing
serveReads(i, ok) ==
    /\ i \in DOMAIN inflight
    /\ inflight[i].orders = <<>>
    /\ \E fetchedOrders \in FetchResults(dbOrders),
          fetchedTransactions \in FetchTransactionResults(dbTransactions) :
           inflight' = [inflight EXCEPT
               ![i].orders = IF ok.orders THEN ReadOk(fetchedOrders) ELSE ReadFailed,
               ![i].transactions = IF ok.transactions THEN ReadOk(fetchedTransactions)
                                   ELSE ReadFailed,
               ![i].goals = IF ok.goals THEN ReadOk(dbGoals) ELSE ReadFailed]
    /\ op' = "serveReads"
    /\ UNCHANGED <<isLoadingData, fetchLog, isPdfModalOpen>>
    /\ UNCHANGED <<memoVars, formVars, dataVars, moneyVars, cursorVars, alertVars>>

Reads == {"orders", "transactions", "goals"}

RemoveAt(s, i) == SubSeq(s, 1, i - 1) \o SubSeq(s, i + 1, Len(s))

\* what the handler does after its await fetchData()
AfterFetch(kind) ==
    CASE kind = "handleAddTransaction" ->
             /\ showSuccessToast' = TRUE
             /\ UNCHANGED <<isFormOpen, editingOrder, formData, extras, paymentStatusRef,
                            deleteId>>
      [] kind = "confirmDelete" ->
             /\ deleteId' = <<>>
             /\ isFormOpen' = FALSE
             /\ editingOrder' = <<>>
             /\ IF isFormOpen \/ editingOrder # <<>>
                THEN RunInitEffects(<<>>)
                ELSE UNCHANGED <<formData, extras, paymentStatusRef>>
             /\ UNCHANGED showSuccessToast
      [] OTHER ->
             /\ isFormOpen' = FALSE
             /\ editingOrder' = <<>>
             /\ showSuccessToast' = TRUE
             /\ IF isFormOpen \/ editingOrder # <<>>
                THEN RunInitEffects(<<>>)
                ELSE UNCHANGED <<formData, extras, paymentStatusRef>>
             /\ UNCHANGED deleteId

\* fetchData keeping the reads that answered although one of them threw
resolveFetch_KeepsAnswered(i) ==
    /\ i \in DOMAIN inflight
    /\ LET request == inflight[i]
       IN /\ \E read \in Reads : request[read] = ReadFailed
          /\ IF request.orders # <<>> /\ request.orders # ReadFailed
             THEN orders' = request.orders[2] /\ MemoRecomputed(request.orders[2], filter)
             ELSE UNCHANGED <<orders, memoVars>>
          /\ UNCHANGED <<transactions, monthlyGoals>>
          /\ alertShown' = <<LoadError>>
          /\ op' = "fetchFailed"
          /\ fetchLog' = fetchLog
          /\ isLoadingData' = FALSE
          /\ inflight' = RemoveAt(inflight, i)
          /\ lastInput' = <<request>>
          /\ AfterFetch(request.kind)
    /\ lastRequest' = <<>>
    /\ UNCHANGED <<dbOrders, dbTransactions, dbGoals, isPdfModalOpen>>
    /\ UNCHANGED <<moneyVars, cursorVars, alertVars>>

\* App.tsx: fetchData from the answer of Promise.all on (the three setters, or
\* the catch), its finally, and the handler that awaited it
resolveFetch(i) ==
    /\ i \in DOMAIN inflight
    /\ LET request == inflight[i]
       IN /\ \/ /\ \A read \in Reads : request[read] # <<>> /\ request[read] # ReadFailed
                /\ orders' = request.orders[2]
                /\ MemoRecomputed(request.orders[2], filter)
                /\ transactions' = request.transactions[2]
                /\ monthlyGoals' = request.goals[2]
                /\ alertShown' = <<>>
                /\ op' = "fetchResolved"
                /\ fetchLog' = [fetchLog EXCEPT !.data = request.no]
             \/ /\ \E read \in Reads : request[read] = ReadFailed
                /\ UNCHANGED <<orders, transactions, monthlyGoals, memoVars>>
                /\ alertShown' = <<LoadError>>
                /\ op' = "fetchFailed"
                /\ fetchLog' = fetchLog
          /\ isLoadingData' = FALSE
          /\ inflight' = RemoveAt(inflight, i)
          /\ lastInput' = <<request>>
          /\ AfterFetch(request.kind)
    /\ lastRequest' = <<>>
    /\ UNCHANGED <<dbOrders, dbTransactions, dbGoals, isPdfModalOpen>>
    /\ UNCHANGED <<moneyVars, cursorVars, alertVars>>

\* App.tsx: handleAddTransaction up to its await fetchData(), the Gateway
\* having accepted the row
handleAddTransactionBegin(type) ==
    /\ Cardinality(dbTransactions) < MaxTx
    /\ NewTransaction(type).id \notin {t.id : t \in dbTransactions}
    /\ lastRequest' = <<[call |-> "createTransaction", transaction |-> NewTransaction(type)]>>
    /\ dbTransactions' = dbTransactions \cup {NewTransaction(type)}
    /\ BeginFetch("handleAddTransaction")
    /\ alertShown' = <<>>
    /\ lastInput' = <<>>
    /\ op' = "handleAddTransactionBegin"
    /\ UNCHANGED <<orders, transactions, monthlyGoals, dbOrders, dbGoals, memoVars>>
    /\ UNCHANGED <<isFormOpen, editingOrder, formData, extras, paymentStatusRef, deleteId,
                   showSuccessToast, isPdfModalOpen, moneyVars, cursorVars, alertVars>>

\* App.tsx: confirmDelete up to its await fetchData(), the Gateway having
\* deleted the row
confirmDeleteBegin ==
    /\ deleteId # <<>>
    /\ lastRequest' = <<[call |-> "deleteServiceOrder", id |-> deleteId[1]]>>
    /\ dbOrders' = DbDelete(dbOrders, deleteId[1])
    /\ BeginFetch("confirmDelete")
    /\ alertShown' = <<>>
    /\ lastInput' = <<>>
    /\ op' = "confirmDeleteBegin"
    /\ UNCHANGED <<orders, transactions, monthlyGoals, dbTransactions, dbGoals, memoVars>>
    /\ UNCHANGED <<isFormOpen, editingOrder, formData, extras, paymentStatusRef, deleteId,
                   showSuccessToast, isPdfModalOpen, moneyVars, cursorVars, alertVars>>

\* the orders that creates of one run store at most
MaxCreates == 2

\* OrderForm.tsx: handleSubmit and App.tsx: handleCreate up to its await
\* fetchData(), the Gateway having stored the order; the form stays open and
\* its save button enabled until triggerSaveSuccess
handleCreateBegin(n) ==
    /\ isFormOpen
    /\ editingOrder = <<>>
    /\ Cardinality(dbOrders) < MaxCreates
    /\ LET finalOrder == FinalOrder(n)
       IN /\ finalOrder.id \notin StoredIds(dbOrders)
          /\ lastRequest' = <<[call |-> "createServiceOrder", order |-> finalOrder]>>
          /\ dbOrders' = DbInsert(dbOrders, finalOrder)
    /\ BeginFetch("handleCreate")
    /\ alertShown' = <<>>
    /\ lastInput' = <<>>
    /\ op' = "handleCreateBegin"
    /\ UNCHANGED <<orders, transactions, monthlyGoals, dbTransactions, dbGoals, memoVars>>
    /\ UNCHANGED <<isFormOpen, editingOrder, formData, extras, paymentStatusRef, deleteId,
                   showSuccessToast, isPdfModalOpen, moneyVars, cursorVars, alertVars>>

\* { ...prev, [key]: val } of a goal map
WithGoal(goals, key, val) ==
    [k \in DOMAIN goals \cup {key} |-> IF k = key THEN val ELSE goals[k]]

GoalError == "Erro ao definir meta."

\* MonthlyGoalWidget.tsx: handleSave hands positive numbers to onSetGoal
GoalInputs == {Scenario.totalValue}

GoalWidgetInputs == {Scenario.totalValue, Scenario.net}

\* the goal setter updating the local map before the Gateway answered
handleSetGoal_Optimistic(val, ok) ==
    /\ val > 0
    /\ LET monthKey == currentMonthKey
       IN /\ lastRequest' = <<[call |-> "setMonthlyGoal", monthKey |-> monthKey,
                               value |-> val]>>
          /\ monthlyGoals' = WithGoal(monthlyGoals, monthKey, val)
          /\ IF ok
             THEN /\ dbGoals' = WithGoal(dbGoals, monthKey, val)
                  /\ alertShown' = <<>>
                  /\ op' = "handleSetGoal"
             ELSE /\ dbGoals' = dbGoals
                  /\ alertShown' = <<GoalError>>
                  /\ op' = "handleSetGoalFailed"
    /\ fetchLog' = [fetchLog EXCEPT !.goal = fetchLog.started]
    /\ lastInput' = <<>>
    /\ UNCHANGED <<orders, transactions, dbOrders, dbTransactions, memoVars>>
    /\ UNCHANGED <<isFormOpen, editingOrder, formData, extras, paymentStatusRef, deleteId,
                   showSuccessToast, moneyVars, cursorVars, alertVars>>
    /\ UNCHANGED <<isLoadingData, inflight, isPdfModalOpen>>

\* App.tsx: handleSetGoal with supabaseService.ts: setMonthlyGoal, the upsert
\* accepted (ok) or refused
handleSetGoal(val, ok) ==
    /\ val > 0
    /\ LET monthKey == currentMonthKey
       IN /\ lastRequest' = <<[call |-> "setMonthlyGoal", monthKey |-> monthKey,
                               value |-> val]>>
          /\ IF ok
             THEN /\ dbGoals' = WithGoal(dbGoals, monthKey, val)
                  /\ monthlyGoals' = WithGoal(monthlyGoals, monthKey, val)
                  /\ fetchLog' = [fetchLog EXCEPT !.goal = fetchLog.started]
                  /\ alertShown' = <<>>
                  /\ op' = "handleSetGoal"
             ELSE /\ UNCHANGED <<dbGoals, monthlyGoals, fetchLog>>
                  /\ alertShown' = <<GoalError>>
                  /\ op' = "handleSetGoalFailed"
    /\ lastInput' = <<>>
    /\ UNCHANGED <<orders, transactions, dbOrders, dbTransactions, memoVars>>
    /\ UNCHANGED <<isFormOpen, editingOrder, formData, extras, paymentStatusRef, deleteId,
                   showSuccessToast, moneyVars, cursorVars, alertVars>>
    /\ UNCHANGED <<isLoadingData, inflight, isPdfModalOpen>>

\* the application after its first fetchData, the Gateway holding one order
AsyncInit ==
    /\ SaveInit
    /\ dbOrders # {}

AsyncNext ==
    \/ \E i \in 1..MaxFetches, ok \in [Reads -> BOOLEAN] : serveReads(i, ok)
    \/ \E i \in 1..MaxFetches : resolveFetch(i)
    \/ handleAddTransactionBegin("expense")
    \/ \E val \in GoalInputs, ok \in BOOLEAN : handleSetGoal(val, ok)
    \/ \E i \in 1..MaxOrders : i \in DOMAIN orders /\ openEdit(i)
    \/ onRequestDelete
    \/ confirmDeleteBegin

SpecAsync == AsyncInit /\ [][AsyncNext]_vars

\* ------------------------------------------- submitting a draft again
\* the application after its first fetchData, the Gateway holding no order
ResubmitInit ==
    /\ SaveInit
    /\ dbOrders = {}

ResubmitNext ==
    \/ openNew
    \/ \E in \in RoleInputs(extras, "helper") :
          /\ in.field = "qty" /\ in.value <= 1
          /\ roleInput("helper", in.field, in.value)
    \/ \E n \in 0..MaxRandom : handleCreateBegin(n)
    \/ \E n \in 0..MaxRandom : handleCreatePartial(n)
    \/ \E i \in 1..MaxFetches, ok \in [Reads -> BOOLEAN] : serveReads(i, ok)
    \/ \E i \in 1..MaxFetches : resolveFetch(i)

SpecResubmit == ResubmitInit /\ [][ResubmitNext]_vars

\* ------------------------------------------------ the goal of the month
GoalInit == SaveInit

GoalNext ==
    \/ \E val \in GoalWidgetInputs, ok \in BOOLEAN : handleSetGoal(val, ok)
    \/ handlePrevMonth
    \/ handleNextMonth

SpecGoal == GoalInit /\ [][GoalNext]_vars

\* ------------------------------------- the financial fields of the draft
\* what is typed into a number input: a negative, zero or a positive number
NumberInputs == {0 - 1, 0, Scenario.driverCost}

FinancialsInit == SaveInit

FinancialsNext ==
    \/ openNew
    \/ \E i \in DOMAIN orders : openEdit(i)
    \/ \E value \in NumberInputs : setTotalValue(value)
    \/ \E value \in NumberInputs : setDriverCost(value)
    \/ \E in \in RoleInputs(extras, "helper") :
          /\ in.field = "cost"
          /\ roleInput("helper", in.field, in.value)
    \/ \E n \in 0..MaxRandom : handleCreateOk(n)
    \/ handleUpdateOk

SpecFinancials == FinancialsInit /\ [][FinancialsNext]_vars

\* ----------------------------------------------------- document export
PdfInit == SaveInit

PdfNext ==
    \/ openNew
    \/ \E i \in DOMAIN orders : openEdit(i)
    \/ onClose
    \/ \E name \in ClientNames : setClientName(name)
    \/ \E in \in RoleInputs(extras, "helper") :
          /\ in.field = "cost"
          /\ roleInput("helper", in.field, in.value)
    \/ \E value \in NumberInputs : setTotalValue(value)
    \/ openPdfModal
    \/ closePdfModal
    \/ generatePdf

SpecPdf == PdfInit /\ [][PdfNext]_vars

\* --------------------------------------- specification of the money rules
MoneyInit ==
    /\ arg \in MoneyArgs
    /\ received = <<>>
    /\ costs = <<>>
    /\ profit = <<>>
    /\ op = "init"
    /\ DataIdle
    /\ CursorIdle
    /\ AlertIdle
    /\ FormIdle
    /\ MemoInit
    /\ SessionIdle(FALSE)

ApplyCalculateReceivedAmount ==
    /\ received = <<>>
    /\ received' = <<calculateReceivedAmount(arg)>>
    /\ op' = "calculateReceivedAmount"
    /\ UNCHANGED <<memoVars, arg, costs, profit, dataVars, cursorVars, alertVars, formVars>>
    /\ UNCHANGED sessionVars

ApplyCalculateCosts ==
    /\ costs = <<>>
    /\ costs' = <<calculateCosts(arg.financials)>>
    /\ op' = "calculateCosts"
    /\ UNCHANGED <<memoVars, arg, received, profit, dataVars, cursorVars, alertVars, formVars>>
    /\ UNCHANGED sessionVars

ApplyCalculateProfit ==
    /\ profit = <<>>
    /\ profit' = <<calculateProfit(arg.financials)>>
    /\ op' = "calculateProfit"
    /\ UNCHANGED <<memoVars, arg, received, costs, dataVars, cursorVars, alertVars, formVars>>
    /\ UNCHANGED sessionVars

MoneyNext ==
    \/ ApplyCalculateReceivedAmount
    \/ ApplyCalculateCosts
    \/ ApplyCalculateProfit

SpecMoney == MoneyInit /\ [][MoneyNext]_vars

\* ------------------------------------------------------------------ claims
AllPaid(ps) == ps.deposit /\ ps.pickup /\ ps.delivery

NonePaid(ps) == ~ps.deposit /\ ~ps.pickup /\ ~ps.delivery

\* C4: calculateReceivedAmount of an order with all three milestones paid is
\* exactly its totalValue, and of an order with no milestone paid is 0.
C4_AllPaidIsExactlyTotal ==
    received # <<>> =>
        /\ AllPaid(arg.paymentStatus) => received[1] = DblOfInt(arg.financials.totalValue)
        /\ NonePaid(arg.paymentStatus) => received[1] = DblZero

\* the progress the payment flags stand for: delivery > pickup > deposit > none
ProgressRule(ps) ==
    CASE ps.delivery -> 100
      [] ~ps.delivery /\ ps.pickup -> 60
      [] ~ps.delivery /\ ~ps.pickup /\ ps.deposit -> 20
      [] OTHER -> 0

\* C1: after a payment flag was toggled or an existing order was loaded into
\* the draft, draft.progress is the progress its payment flags stand for.
C1_DraftProgressDerived ==
    op \in {"setPaymentStatus", "openEdit"} =>
        formData.progress = ProgressRule(formData.paymentStatus)

\* C2: every order handed to the Gateway by a submit carries the progress its
\* own payment flags stand for.
C2_PersistedProgressDerived ==
    lastRequest # <<>> =>
        lastRequest[1].order.progress = ProgressRule(lastRequest[1].order.paymentStatus)

\* C3: the draft of a form opened for a new order has all flags false, no
\* extras, no notes and progress 20, whatever happened in the form before.
C3_NewDraftIsDefault ==
    op = "openNew" =>
        /\ NonePaid(formData.paymentStatus)
        /\ ~formData.isContractSigned
        /\ ~formData.isPostedFretebras
        /\ ~formData.isCostsPaid
        /\ extras = <<>>
        /\ formData.notes = <<>>
        /\ formData.progress = 20

\* the sum over the extras of qty * cost, by index
RECURSIVE SumQtyCost(_, _)
SumQtyCost(l, idx) ==
    IF idx = {} THEN 0
    ELSE LET i == CHOOSE j \in idx : TRUE
         IN l[i].qty * l[i].cost + SumQtyCost(l, idx \ {i})

\* C5: calculateCosts(f) is f.driverCost plus the sum over the extras of
\* qty * cost, and calculateProfit(f) is f.totalValue minus that.
C5_CostProfitIdentity ==
    LET f == arg.financials
        expected == f.driverCost + SumQtyCost(f.extras, DOMAIN f.extras)
    IN /\ costs # <<>> => costs[1] = expected
       /\ profit # <<>> => profit[1] = f.totalValue - expected

C5_Witness ==
    /\ costs # <<>>
    /\ profit # <<>>
    /\ Len(arg.financials.extras) = 2
    /\ arg.financials.extras[1].qty = 2
    /\ arg.financials.extras[1].cost = 2
    /\ arg.financials.extras[2].qty = 1
    /\ arg.financials.extras[2].cost = 1
    /\ arg.financials.driverCost = Scenario.driverCost
    /\ arg.financials.totalValue = 3
    /\ profit[1] < 0

\* the month of a YYYY-MM-DD text, read as numbers
TextYearMonth(text) ==
    LET parts == SplitDash(text, <<>>)
    IN <<ParseNum(parts[1]), ParseNum(parts[2])>>

\* the binary64 sum of a sequence of values, left to right
RECURSIVE SumDbl(_)
SumDbl(values) ==
    IF values = <<>> THEN DblZero
    ELSE DblAdd(SumDbl(SubSeq(values, 1, Len(values) - 1)), values[Len(values)])

RECURSIVE SumInt(_)
SumInt(values) == IF values = <<>> THEN 0 ELSE Head(values) + SumInt(Tail(values))

\* cashIn - cashOut of the month (year, month) as the claim words it
ClaimedNet(orderList, transactionList, year, month) ==
    LET OfMonthO(order) == TextYearMonth(order.pickupDate) = <<year, month>>
        OfMonthT(t) == TextYearMonth(t.date) = <<year, month>>
        PaidO(order) == OfMonthO(order) /\ order.isCostsPaid
        Income(t) == OfMonthT(t) /\ t.type = "income"
        Expense(t) == OfMonthT(t) /\ t.type = "expense"
        mo == SelectSeq(orderList, OfMonthO)
        po == SelectSeq(orderList, PaidO)
        inc == SelectSeq(transactionList, Income)
        exp == SelectSeq(transactionList, Expense)
        cashIn == SumDbl([i \in DOMAIN mo |-> calculateReceivedAmount(mo[i])]
                         \o [i \in DOMAIN inc |-> DblOfInt(inc[i].amount)])
        cashOut == SumInt([i \in DOMAIN po |-> calculateCosts(po[i].financials)])
                   + SumInt([i \in DOMAIN exp |-> exp[i].amount])
    IN DblSub(cashIn, DblOfInt(cashOut))

\* one order (pickup 2024-06-05, 1000, deposit and pickup paid, costs paid,
\* driver cost 200, no extras) and one expense of 50 on 2024-06-20
IsScenario ==
    /\ Len(orders) = 1
    /\ orders[1].pickupDate = DateStr(2024, 6, 5)
    /\ orders[1].financials = [totalValue |-> 1000, driverCost |-> 200, extras |-> <<>>]
    /\ orders[1].paymentStatus = [deposit |-> TRUE, pickup |-> TRUE, delivery |-> FALSE]
    /\ orders[1].isCostsPaid
    /\ Len(transactions) = 1
    /\ transactions[1].type = "expense"
    /\ transactions[1].amount = 50
    /\ transactions[1].date = DateStr(2024, 6, 20)

\* C9: each monthly figure is cashIn - cashOut of its month: received amounts
\* of the month's orders plus the month's incomes, minus the costs of the
\* month's orders whose costs are paid and the month's expenses; the
\* scenario of the claim gives 350 for 2024-06.
C9_MonthlyNet ==
    /\ monthlyRevenue = ClaimedNet(orders, transactions, viewDate.year, viewDate.month + 1)
    /\ revenueViewValue =
           ClaimedNet(orders, transactions, revenueViewDate.year, revenueViewDate.month + 1)
    /\ (IsScenario /\ DateKey(viewDate) = <<"2", "0", "2", "4", "-", "0", "6">>)
           => monthlyRevenue = DblOfInt(Scenario.net)

C9_Witness ==
    /\ IsScenario
    /\ DateKey(viewDate) = <<"2", "0", "2", "4", "-", "0", "6">>
    /\ monthlyRevenue = DblOfInt(350)
    /\ DateKey(revenueViewDate) = <<"2", "0", "2", "4", "-", "0", "5">>
    /\ revenueViewValue = DblZero

\* C10: moving the revenue-card month leaves the goal-widget month, its key
\* and its figure alone, moving the goal-widget month leaves the revenue-card
\* month and figure alone, and neither changes orders, transactions or goals.
C10_IndependentCursors ==
    [][LET after == [orders |-> orders', transactions |-> transactions',
                     viewDate |-> viewDate', revenueViewDate |-> revenueViewDate']
           monthlyRevenueAfter == MonthlyNet(after.orders, after.transactions, after.viewDate)
           revenueViewValueAfter ==
               MonthlyNet(after.orders, after.transactions, after.revenueViewDate)
       IN /\ op' \in {"handlePrevRevenueMonth", "handleNextRevenueMonth"} =>
               /\ viewDate' = viewDate
               /\ DateKey(after.viewDate) = currentMonthKey
               /\ monthlyRevenueAfter = monthlyRevenue
               /\ UNCHANGED <<orders, transactions, monthlyGoals>>
          /\ op' \in {"handlePrevMonth", "handleNextMonth"} =>
               /\ revenueViewDate' = revenueViewDate
               /\ revenueViewValueAfter = revenueViewValue
               /\ UNCHANGED <<orders, transactions, monthlyGoals>>]_vars

C10_Witness ==
    /\ op = "handlePrevRevenueMonth"
    /\ DateKey(revenueViewDate) = <<"2", "0", "2", "4", "-", "0", "5">>
    /\ currentMonthKey = <<"2", "0", "2", "4", "-", "0", "6">>
    /\ monthlyRevenue # revenueViewValue

Range(f) == {f[i] : i \in DOMAIN f}

\* the days from today's date to the date a YYYY-MM-DD text names
DaysAhead(text, t) ==
    LET parts == SplitDash(text, <<>>)
    IN DaysFromCivil(ParseNum(parts[1]), ParseNum(parts[2]), ParseNum(parts[3]))
           - (EpochDays + (t \div MsPerDay))

ClaimedCritical(order, t) == order.progress # 100 /\ DaysAhead(order.pickupDate, t) <= 5

C7_Debounce ==
    [][raiseLog'.raised /\ raiseLog.last # <<>> => now' - raiseLog.last[1] > FIVE_HOURS]_vars

C7_Witness ==
    /\ op \in {"tick", "fetchData"}
    /\ ~raiseLog.raised
    /\ raiseLog.last # <<>>
    /\ now - raiseLog.last[1] = FIVE_HOURS
    /\ ~urgentAlert.show
    /\ \E i \in DOMAIN orders :
          ClaimedCritical(orders[i], now) /\ orders[i].clientName \notin Range(urgentAlert.names)

\* C8: a pass that finds critical orders while no timestamp is stored or the
\* stored one is older than 5 hours raises the alert with their count and
\* client names and stores the current time; any other pass leaves the stored
\* timestamp and the alert as they were.
C8_Raise ==
    [][op' \in {"tick", "fetchData"} =>
          LET after == [orders |-> orders']
              IsCrit(o) == ClaimedCritical(o, now)
              crit == SelectSeq(after.orders, IsCrit)
              armed == \/ lastExpirationAlertTime = <<>>
                       \/ now - ParseNum(lastExpirationAlertTime) > FIVE_HOURS
          IN IF crit # <<>> /\ armed
             THEN /\ urgentAlert' = [count |-> Len(crit),
                                     names |-> [i \in DOMAIN crit |-> crit[i].clientName],
                                     show |-> TRUE]
                  /\ lastExpirationAlertTime' = NumStr(now)
                  /\ raiseLog'.raised
             ELSE /\ UNCHANGED <<urgentAlert, lastExpirationAlertTime>>
                  /\ ~raiseLog'.raised]_vars

C8_Witness ==
    /\ op = "tick"
    /\ raiseLog.raised
    /\ now > FIVE_HOURS
    /\ lastExpirationAlertTime = NumStr(now)
    /\ Len(orders) = 2
    /\ urgentAlert.count = 1
    /\ urgentAlert.show

\* C11: the pending receivables are the sum, over all held orders of any
\* month and year, of totalValue - calculateReceivedAmount(order), whatever
\* months the two cursors show; one fully unpaid order of 500 picked up in a
\* past year gives exactly 500.
C11_GlobalPending ==
    /\ globalPending =
           SumDbl([i \in DOMAIN orders |->
                     DblSub(DblOfInt(orders[i].financials.totalValue),
                            calculateReceivedAmount(orders[i]))])
    /\ (Len(orders) = 1 /\ orders[1] = [UnpaidOrder EXCEPT !.id = orders[1].id]) =>
           globalPending = DblOfInt(500)

C11_Witness ==
    /\ Len(orders) = 1
    /\ orders[1].pickupDate = DateStr(2023, 3, 10)
    /\ NonePaid(orders[1].paymentStatus)
    /\ globalPending = DblOfInt(500)
    /\ op = "handleNextRevenueMonth"
    /\ DateKey(revenueViewDate) = <<"2", "0", "2", "4", "-", "0", "7">>
    /\ revenueViewValue = DblZero

\* the number of orders of a list that satisfy P
CountWhere(list, P(_)) == Cardinality({i \in DOMAIN list : P(list[i])})

\* C12: counts.all is the number of held orders, counts.active the number with
\* progress < 100, counts.completed the number with progress = 100 and
\* counts.critical the number for which isOrderCritical holds; so
\* active + completed = all and critical <= active, in every state.
C12_Counts ==
    LET IsActive(o) == o.progress < 100
        IsCompleted(o) == o.progress = 100
        IsCritical(o) == isOrderCritical(o, now)
    IN /\ counts.all = Len(orders)
       /\ counts.active = CountWhere(orders, IsActive)
       /\ counts.completed = CountWhere(orders, IsCompleted)
       /\ counts.critical = CountWhere(orders, IsCritical)
       /\ counts.active + counts.completed = counts.all
       /\ counts.critical <= counts.active

\* the place of an order in a list of distinct orders
PlaceIn(list, o) == CHOOSE k \in DOMAIN list : list[k] = o

\* what a filter keeps at clock reading t
ClaimedKeep(f, o, t) ==
    CASE f = "all" -> TRUE
      [] f = "active" -> o.progress < 100
      [] f = "completed" -> o.progress = 100
      [] f = "critical" -> isOrderCritical(o, t)

\* C13: for each filter the displayed list holds exactly the held orders the
\* filter keeps, ascending by pickupDate, orders of one date in the order
\* they are held.
C13_FilteredList ==
    /\ Range(filteredOrders) \subseteq Range(orders)
    /\ Cardinality(Range(filteredOrders)) = Len(filteredOrders)
    /\ \A i \in DOMAIN orders :
          orders[i] \in Range(filteredOrders) <=> ClaimedKeep(filter, orders[i], now)
    /\ \A i, j \in DOMAIN filteredOrders :
          i < j =>
              /\ DaysAhead(filteredOrders[i].pickupDate, 0)
                     <= DaysAhead(filteredOrders[j].pickupDate, 0)
              /\ filteredOrders[i].pickupDate = filteredOrders[j].pickupDate =>
                     PlaceIn(orders, filteredOrders[i]) < PlaceIn(orders, filteredOrders[j])

\* the positions of the entries of a role in an extras list
EntriesOf(list, role) == {i \in DOMAIN list : list[i].type = role}

\* C14: at any time the working set holds at most one entry for each of the
\* roles helper, assembler and packer; after updateRole(role, field, value) it
\* holds exactly one entry for that role, carrying the resulting quantity and
\* unit cost, when the resulting quantity or cost is above zero, and no entry
\* for that role when both are zero
C14_RoleUpsert ==
    [][/\ \A role \in {"helper", "assembler", "packer"} :
             Cardinality(EntriesOf(extras', role)) <= 1
       /\ op' = "updateRole" =>
            LET input == lastInput'[1]
                before == EntriesOf(extras, input.type)
                given == IF input.value > 0 THEN input.value ELSE 0
                qty == IF input.field = "qty" THEN given
                       ELSE IF before = {} THEN 0 ELSE extras[CHOOSE i \in before : TRUE].qty
                cost == IF input.field = "cost" THEN given
                        ELSE IF before = {} THEN 0 ELSE extras[CHOOSE i \in before : TRUE].cost
                after == EntriesOf(extras', input.type)
            IN IF qty > 0 \/ cost > 0
               THEN /\ Cardinality(after) = 1
                    /\ \A i \in after : extras'[i].qty = qty /\ extras'[i].cost = cost
               ELSE after = {}]_vars

\* updateRole replaced the helper entry of a loaded order, next to another entry
C14_Witness ==
    /\ op = "updateRole"
    /\ lastInput = <<[type |-> "helper", field |-> "qty", value |-> 3]>>
    /\ Len(extras) = 2
    /\ \E i \in DOMAIN extras :
          extras[i].type = "helper" /\ extras[i].qty = 3 /\ extras[i].cost = Scenario.expense

SubmittedOrder(request) == request[1].order

IsSubmit(request) ==
    request # <<>> /\ request[1].call \in {"createServiceOrder", "updateServiceOrder"}

\* an order without the three fields that submission may set
Scalars(order) == [order EXCEPT !.id = <<>>, !.createdAt = <<>>, !.financials.extras = <<>>]

\* C16: the order a submission hands to the Gateway has the draft's scalar
\* fields and the extras working set as financials.extras; it keeps the
\* draft's id and createdAt when present and gets generated ones only when
\* absent; it goes to create when no order is being edited and to update
\* otherwise, and then carries the id and createdAt of the order being edited
C16_Submission ==
    [][IsSubmit(lastRequest') =>
         LET o == SubmittedOrder(lastRequest')
         IN /\ Scalars(o) = Scalars(formData)
            /\ o.financials.extras = extras
            /\ IF formData.id # <<>> THEN o.id = formData.id
               ELSE o.id \in {GeneratedId(n) : n \in 0..MaxRandom}
            /\ IF formData.createdAt # <<>> THEN o.createdAt = formData.createdAt
               ELSE o.createdAt = NowIso
            /\ lastRequest'[1].call = "createServiceOrder" <=> editingOrder = <<>>
            /\ editingOrder # <<>> =>
                 /\ o.id = editingOrder[1].id
                 /\ o.createdAt = editingOrder[1].createdAt]_vars

\* an update went through after the helpers of the stored order were reduced
\* to one in the form
C16_Witness ==
    /\ op = "handleUpdate"
    /\ IsSubmit(lastRequest)
    /\ SubmittedOrder(lastRequest).id = ExtrasSeedOrder.id
    /\ \E i \in DOMAIN SubmittedOrder(lastRequest).financials.extras :
          LET e == SubmittedOrder(lastRequest).financials.extras[i]
          IN e.type = "helper" /\ e.qty = 1
    /\ \E o \in dbOrders : o = SubmittedOrder(lastRequest)

\* C17: a submit of a draft whose client name is empty issues no create or
\* update call and changes nothing
C17_EmptyNameBlocked ==
    [][formData.clientName = <<>> =>
         /\ ~IsSubmit(lastRequest')
         /\ op' \in {"handleCreate", "handleUpdate", "handleCreateFailed", "handleUpdateFailed"}
               => UNCHANGED <<dataVars, isFormOpen, editingOrder, formData, extras>>]_vars

IsDelete(request) == request # <<>> /\ request[1].call = "deleteServiceOrder"

\* C18: a delete call reaches the Gateway only in a confirmation step taken
\* while the id is pending, the pending id being set only by a delete request
\* for the order open in the form; cancelling clears the pending id with no
\* Gateway call; after a successful delete the pending id is cleared, the
\* form is closed and no order is being edited
C18_TwoStepDelete ==
    [][/\ IsDelete(lastRequest') =>
            /\ op' \in {"confirmDelete", "confirmDeleteFailed"}
            /\ deleteId = <<lastRequest'[1].id>>
       /\ (\E o \in dbOrders : o.id \notin StoredIds(dbOrders')) => IsDelete(lastRequest')
       /\ (deleteId' # <<>> /\ deleteId' # deleteId) =>
            /\ op' = "onRequestDelete"
            /\ editingOrder # <<>>
            /\ deleteId' = <<editingOrder[1].id>>
       /\ op' = "cancelDelete" =>
            /\ deleteId' = <<>>
            /\ lastRequest' = <<>>
            /\ UNCHANGED <<dbOrders, dbTransactions, dbGoals>>
       /\ op' = "confirmDelete" =>
            /\ deleteId' = <<>>
            /\ ~isFormOpen'
            /\ editingOrder' = <<>>]_vars

\* the stored order was deleted from its form: request, confirmation
C18_Witness ==
    /\ op = "confirmDelete"
    /\ IsDelete(lastRequest)
    /\ lastRequest[1].id = ExtrasSeedOrder.id
    /\ dbOrders = {}
    /\ orders = <<>>
    /\ deleteId = <<>>
    /\ ~isFormOpen

\* C19: when the Gateway fails during a create, an update or a delete, the
\* draft and the extras working set are exactly as before, the form is as
\* open as before (open, for a create or an update), the order being edited
\* and, for a delete, the pending id stay set, the failure is reported by
\* one alert, the step does not show the success toast, and the handler made
\* its one Gateway call and no other
C19_FailureKeepsDraft ==
    [][op' \in {"handleCreateFailed", "handleUpdateFailed", "confirmDeleteFailed"} =>
         /\ UNCHANGED <<formData, extras, isFormOpen, editingOrder, deleteId, showSuccessToast>>
         /\ op' # "confirmDeleteFailed" => isFormOpen'
         /\ op' = "confirmDeleteFailed" => deleteId' # <<>>
         /\ alertShown' = <<CASE op' = "handleCreateFailed" -> CreateError
                              [] op' = "handleUpdateFailed" -> UpdateError
                              [] op' = "confirmDeleteFailed" -> DeleteError>>
         /\ Len(lastRequest') = 1
         /\ UNCHANGED <<orders, transactions, monthlyGoals>>]_vars

\* an update of the stored order failed before any write, after the helpers
\* were reduced in the form: the form is open on the edited working set
C19_Witness ==
    /\ op = "handleUpdateFailed"
    /\ alertShown = <<UpdateError>>
    /\ isFormOpen
    /\ editingOrder = <<ExtrasSeedOrder>>
    /\ extras # ExtrasSeedOrder.financials.extras
    /\ ExtrasSeedOrder \in dbOrders
    /\ ~showSuccessToast

\* C20: after every create, update, delete or add-transaction that the
\* Gateway accepted, the in-memory orders, transactions and goals are what a
\* fetch of the Gateway's contents returns
C20_RefetchBeforeSuccess ==
    [][op' \in {"handleCreate", "handleUpdate", "confirmDelete", "handleAddTransaction"} =>
         LET after == [orders |-> orders', transactions |-> transactions',
                       monthlyGoals |-> monthlyGoals', dbOrders |-> dbOrders',
                       dbTransactions |-> dbTransactions', dbGoals |-> dbGoals']
         IN /\ after.orders \in FetchResults(after.dbOrders)
            /\ after.transactions \in FetchTransactionResults(after.dbTransactions)
            /\ after.monthlyGoals = after.dbGoals]_vars

\* C21: when one of the three reads of a fetch fails, orders, transactions and
\* goals in memory stay as they were (also those whose read was answered),
\* the load error is reported, the loading flag is false again and no fetch
\* is started in its place
C21_FailedFetch ==
    [][op' = "fetchFailed" =>
          /\ UNCHANGED <<orders, transactions, monthlyGoals>>
          /\ alertShown' = <<LoadError>>
          /\ isLoadingData' = FALSE
          /\ fetchLog'.started = fetchLog.started
          /\ Len(inflight') = Len(inflight) - 1]_vars

\* a fetch failed on its goals although its orders and transactions were
\* answered, and the orders in memory are not the answered ones
C21_Witness ==
    /\ op = "fetchFailed"
    /\ lastInput[1].goals = ReadFailed
    /\ Len(lastInput[1].orders) = 2
    /\ Len(lastInput[1].transactions) = 2
    /\ lastInput[1].orders[2] # orders
    /\ ~isLoadingData

\* C22: the answer of a fetch started earlier does not replace collections
\* that were set from a fetch started later, nor a goal that was set locally
\* after that earlier fetch had started
C22_StaleResponse ==
    [][op' = "fetchResolved" =>
          /\ lastInput'[1].no < fetchLog.data => UNCHANGED <<orders, transactions, monthlyGoals>>
          /\ lastInput'[1].no <= fetchLog.goal => monthlyGoals' = monthlyGoals]_vars

C24_NonNegativeFinancials ==
    [][IsSubmit(lastRequest') =>
         LET o == SubmittedOrder(lastRequest')
         IN /\ o.financials.totalValue >= 0
            /\ o.financials.driverCost >= 0
            /\ \A i \in DOMAIN o.financials.extras :
                  o.financials.extras[i].qty >= 0 /\ o.financials.extras[i].cost >= 0]_vars

IsExport(request) == request # <<>> /\ request[1].call = "generateTeamPDF"

\* C25: the document generator is called only while an order is open for
\* editing and gets that order as it was opened, not the draft; the export
\* dialog is not opened while a new order is being created
C25_ExportsOpenedOrder ==
    [][/\ IsExport(lastRequest') =>
             /\ isFormOpen /\ editingOrder # <<>>
             /\ lastRequest'[1].order = editingOrder[1]
       /\ op' = "openPdfModal" => editingOrder # <<>>]_vars

\* a document was generated while the draft's name and working set differed
\* from the opened order's
C25_Witness ==
    /\ op = "generatePdf"
    /\ IsExport(lastRequest)
    /\ formData.clientName # editingOrder[1].clientName
    /\ extras # editingOrder[1].financials.extras
    /\ lastRequest[1].order.clientName = editingOrder[1].clientName

\* a create request of the open draft carrying the n-th generated id
CreateRequest(n) ==
    /\ handleCreateOk(n) \/ handleCreateFail(n) \/ handleCreatePartial(n)
    /\ lastRequest'[1].order.id = GeneratedId(n)

\* C26: the id of a new order is generated without a look at the ids held:
\* while a new order is being created, a create request is possible with
\* every id the generator can draw, the ids of held orders included
C26_NoUniquenessCheck ==
    (isFormOpen /\ editingOrder = <<>>) =>
        \A n \in 0..MaxRandom : ENABLED CreateRequest(n)

\* a create request was made for a draft whose generated id is the id of a
\* stored order that is not this draft
C26_Witness ==
    /\ op = "handleCreateFailed"
    /\ \E o \in dbOrders :
          /\ o.id = lastRequest[1].order.id
          /\ o.clientName # lastRequest[1].order.clientName
    /\ \E i \in DOMAIN orders : orders[i].id = lastRequest[1].order.id

\* the create call of the last step failed after it had stored the order row
FailedPartWay ==
    /\ op = "handleCreateFailed"
    /\ lastRequest[1].order.financials.extras # <<>>
    /\ [lastRequest[1].order EXCEPT !.financials.extras = <<>>] \in dbOrders

\* C27: one draft of a new order leads to at most one stored order: no create
\* is started while a create of the open draft is in flight, and the submit
\* after a create that failed part-way stores no second order
C27_OneOrderPerDraft ==
    [][op' = "handleCreateBegin" =>
          /\ \A i \in DOMAIN inflight : inflight[i].kind # "handleCreate"
          /\ ~FailedPartWay]_vars

\* C28: createServiceOrder and updateServiceOrder are all-or-nothing: a call
\* that fails leaves the stored orders, their extras included, as they were
\* before the call
C28_AllOrNothing ==
    [][op' \in {"handleCreateFailed", "handleUpdateFailed"} => dbOrders' = dbOrders]_vars

\* the entries of a working set that are not of a role, or not of an id
OtherRoles(list, role) == SelectSeq(list, LAMBDA e : e.type # role)

OtherIds(list, id) == SelectSeq(list, LAMBDA e : e.id # id)

WithoutProgress(order) == [order EXCEPT !.progress = 0]

\* C30: when the form was closed without a successful submit and is opened
\* again, the draft, the extras working set and the notes are those of the
\* order being opened (its progress aside, which is derived), or the empty
\* defaults for a new order, whatever was edited before the close
C30_ReopenDiscardsEdits ==
    [][op = "onClose" =>
          /\ op' = "openEdit" =>
                /\ WithoutProgress(formData') = WithoutProgress(editingOrder'[1])
                /\ extras' = editingOrder'[1].financials.extras
          /\ op' = "openNew" =>
                /\ formData' = emptyOrder
                /\ extras' = <<>>]_vars

====
